---- MODULE Spec2Model ----
(***************************************************************************)
(* Poppel: a directory-backed tree of typed nodes (File / Group / Dataset  *)
(* / Raw).  The model covers the Node Store of poppel::core (has_node,     *)
(* get_node, create_node_immediate, require_node, create_node,             *)
(* delete_node), the path validation it relies on, the File open state and *)
(* the payload operations of the Dataset handle.                           *)
(*                                                                         *)
(* The backing store is one File root directory.  A directory is named by  *)
(* the sequence of file names leading to it from the root (<<>> is the     *)
(* root itself).  A path given by a caller is a string, modelled as the    *)
(* sequence of its tokens: file names, "." , ".." and the separator "/".   *)
(***************************************************************************)
EXTENDS Integers, Sequences, FiniteSets, TLC

VARIABLES
    fs,          \* the directories on disk: dir |-> [type, data]
    open_state,  \* FileStates::open_state of the File
    handles,     \* the Node values the caller holds besides the File's own node
    last,        \* the last call and how it ended
    heap,        \* the FileStates objects on the heap, by address
    files,       \* the File objects: their pstates_ and group_.pstates_
    derived,     \* the Group/Dataset handles derived from the File objects
    callers,     \* the calls of concurrent callers, each at its next step
    array,       \* the array in memory that is saved
    stream,      \* the bytes of the .npy file
    loaded,      \* what the last load made of the stream
    build        \* what the build fixes: the host byte order, plain char

\* The File objects with the FileStates they own, and the codec's data: the
\* Node Store calls leave both alone.
lifetime == <<heap, files, derived, callers>>
codec == <<array, stream, loaded, build>>

vars == <<fs, open_state, handles, last, lifetime, codec>>

----------------------------------------------------------------------------
(* Bounds of the exploration. *)

\* Directories deeper than this below the root are not explored.
MaxDepth == 3
\* No more than this many directories below the root.
MaxNodes == 3
\* The caller keeps at most this many node handles besides the root,
\* none of them deeper than MaxHandleDepth.
MaxHandles == 1
MaxHandleDepth == 1
\* has/get/delete are explored with names of at most this many segments.
MaxQueryDepth == 1
\* The payload calls are explored on a store of at most MaxDataNodes
\* directories, named with at most MaxDataDepth segments.
MaxDataNodes == 2
MaxDataDepth == 1
\* The attribute calls are explored on a store of at most MaxAttrNodes
\* directories.
MaxAttrNodes == 1
\* File::open is explored on a root with at most MaxFileNodes directories
\* below it.
MaxFileNodes == 2

Names == {"g1", "d1"}
Values == {"x", "y"}
NoFile == "nofile"
NoNode == [type |-> "unknown", relpath |-> <<"?">>]

----------------------------------------------------------------------------
(* Types. *)

NodeType == {"unknown", "file", "group", "dataset", "raw"}
FileOpenState == {"ReadOnly", "ReadWrite", "Closed"}

\* struct Node { NodeMeta meta; path root; path relpath; }: one root here.
Node(type, relpath) == [type |-> type, relpath |-> relpath]

\* Node::path(): relpath.empty() ? root : root / relpath.
path(node) == node.relpath

\* The exception kinds; the code throws one Exception class, told apart by
\* the throwing assertion.
ErrKind == {"StateError", "TypeMismatch", "PathError", "NotFound",
            "AlreadyExists", "IOError"}

\* The outcome of a call: how it ended, what it returned, the directory it
\* resolved or created (for a call that returns a node) and the tree it left.
NoDir == <<"?">>
Outcome(err, val, dir, tree) ==
    [err |-> err, val |-> val, dir |-> dir, tree |-> tree]
Fail(err, tree) == Outcome(err, NoNode, NoDir, tree)

----------------------------------------------------------------------------
(* Utility functions. *)

assert_file_open(filestates) ==
    IF filestates = "Closed" THEN "StateError" ELSE "ok"

\* A variant that lets a read-only File through.
assert_file_writable_ClosedOnly(filestates) ==
    IF filestates = "Closed" THEN "StateError" ELSE "ok"

assert_file_writable(filestates) ==
    IF filestates = "Closed" THEN "StateError"
    ELSE IF filestates = "ReadOnly" THEN "StateError"
    ELSE "ok"

is_node_group(node) == node.type = "group" \/ node.type = "file"
assert_is_node_group(node) ==
    IF ~is_node_group(node) THEN "TypeMismatch" ELSE "ok"

is_node_dataset(node) == node.type = "dataset"
assert_is_node_dataset(node) ==
    IF ~is_node_dataset(node) THEN "TypeMismatch" ELSE "ok"

\* std::filesystem::is_directory / exists: every entry the calls look for
\* is a directory of the tree.
is_directory(tree, dir) == dir \in DOMAIN tree

assert_exists_directory(tree, dir) ==
    IF ~is_directory(tree, dir) THEN "NotFound" ELSE "ok"
\* A variant that never finds the path occupied.
assert_not_exists_Never(tree, dir) == "ok"

assert_not_exists(tree, dir) ==
    IF is_directory(tree, dir) THEN "AlreadyExists" ELSE "ok"

read_node_meta(tree, dir) == tree[dir].type

\* A variant that takes any descriptor for the expected one.
TypeMatches_Always(meta_type, nodetype) == TRUE

\* if(meta.type != nodetype): the descriptor read is of the expected type.
TypeMatches(meta_type, nodetype) == meta_type = nodetype

----------------------------------------------------------------------------
(* Paths given by callers.  std::filesystem::path::lexically_normal, on   *)
(* the token sequence of the generic-format string.                        *)

IsSep(t) == t = "/"
IsFilename(t) == t # "/"

\* Redundant separators count as one.
RECURSIVE CollapseSeparators(_)
CollapseSeparators(s) ==
    IF Len(s) < 2 THEN s
    ELSE IF IsSep(s[1]) /\ IsSep(s[2]) THEN CollapseSeparators(Tail(s))
    ELSE <<s[1]>> \o CollapseSeparators(Tail(s))

\* Remove each dot filename and any immediately following separator.
RECURSIVE RemoveDots(_)
RemoveDots(s) ==
    IF s = <<>> THEN <<>>
    ELSE IF s[1] = "." THEN
        IF Len(s) >= 2 /\ IsSep(s[2]) THEN RemoveDots(SubSeq(s, 3, Len(s)))
        ELSE RemoveDots(Tail(s))
    ELSE <<s[1]>> \o RemoveDots(Tail(s))

\* The places where a non-dot-dot filename is followed by a separator and
\* a dot-dot filename.
DotDotPairs(s) ==
    {i \in 1..(Len(s) - 2) :
        IsFilename(s[i]) /\ s[i] # ".." /\ IsSep(s[i + 1]) /\ s[i + 2] = ".."}

Min(S) == CHOOSE x \in S : \A y \in S : x <= y

\* As long as any appear, remove such a pair along with any immediately
\* following separator.
RECURSIVE RemoveDotDotPairs(_)
RemoveDotDotPairs(s) ==
    IF DotDotPairs(s) = {} THEN s
    ELSE LET i == Min(DotDotPairs(s))
             j == IF Len(s) >= i + 3 /\ IsSep(s[i + 3]) THEN i + 4 ELSE i + 3
         IN RemoveDotDotPairs(SubSeq(s, 1, i - 1) \o SubSeq(s, j, Len(s)))

\* With a root directory, remove the dot-dot filenames that follow it and
\* the separators following them.
RECURSIVE RemoveRootDotDots(_)
RemoveRootDotDots(s) ==
    IF Len(s) >= 2 /\ IsSep(s[1]) /\ s[2] = ".." THEN
        IF Len(s) >= 3 /\ IsSep(s[3])
        THEN RemoveRootDotDots(<<"/">> \o SubSeq(s, 4, Len(s)))
        ELSE RemoveRootDotDots(<<"/">> \o SubSeq(s, 3, Len(s)))
    ELSE s

\* If the last filename is dot-dot, remove any trailing separator.
RemoveTrailingAfterDotDot(s) ==
    IF Len(s) >= 2 /\ IsSep(s[Len(s)]) /\ s[Len(s) - 1] = ".."
    THEN SubSeq(s, 1, Len(s) - 1)
    ELSE s

lexically_normal(name) ==
    IF name = <<>> THEN <<>>
    ELSE LET s == RemoveTrailingAfterDotDot(RemoveRootDotDots(
                      RemoveDotDotPairs(RemoveDots(CollapseSeparators(name)))))
         IN IF s = <<>> THEN <<".">> ELSE s

\* path::is_absolute, path::has_filename, *path::begin() on a token string.
is_absolute(p) == p # <<>> /\ IsSep(p[1])
has_filename(p) == p # <<>> /\ IsFilename(p[Len(p)])

\* A variant that lets a trailing separator through.
is_valid_node_normalized_relpath_AnyEnd(normalized_relpath) ==
    IF is_absolute(normalized_relpath) \/ normalized_relpath = <<>> THEN FALSE
    ELSE IF normalized_relpath[1] = "." \/ normalized_relpath[1] = ".." THEN FALSE
    ELSE TRUE

\* Validate node relative (normalized) path.
is_valid_node_normalized_relpath(normalized_relpath) ==
    IF is_absolute(normalized_relpath) \/ normalized_relpath = <<>> THEN FALSE
    ELSE IF normalized_relpath[1] = "." \/ normalized_relpath[1] = ".." THEN FALSE
    ELSE has_filename(normalized_relpath)
assert_is_valid_node_normalized_relpath(normalized_relpath) ==
    IF ~is_valid_node_normalized_relpath(normalized_relpath)
    THEN "PathError" ELSE "ok"

\* The filenames a path iterates over (begin() .. end()), for a path that
\* passed the validation: no root and no empty last element.
Parts(p) == SelectSeq(p, IsFilename)

\* path::has_parent_path, parent_path, filename of a validated path.
has_parent_path(p) == Len(p) > 1
parent_path(p) == SubSeq(p, 1, Len(p) - 2)
filename(p) == <<p[Len(p)]>>

\* operator/ : the directory below dir that a validated relative path names.
Below(dir, p) == dir \o Parts(p)

\* A relative path string from its filenames.
RECURSIVE Join(_)
Join(names) ==
    IF Len(names) <= 1 THEN names
    ELSE <<names[1], "/">> \o Join(Tail(names))


----------------------------------------------------------------------------
(* The tree on disk. *)

\* A node directory: the type in poppel.json, the payload file data.npy
\* and the attribute document attributes.json (the last made on demand).
Entry(type, data) == [type |-> type, data |-> data, attr |-> NoFile]

IsPrefix(p, q) == Len(p) <= Len(q) /\ SubSeq(q, 1, Len(p)) = p

\* std::filesystem::create_directory followed by write_node_meta.  The
\* directory is made only below an existing directory (a missing parent is
\* a filesystem_error) and then gets a fresh descriptor.
CanCreateDirectory(tree, dir) ==
    dir # <<>> /\ is_directory(tree, SubSeq(dir, 1, Len(dir) - 1))

write_node_meta(tree, dir, type) ==
    [d \in DOMAIN tree \cup {dir} |->
        IF d = dir THEN Entry(type, NoFile) ELSE tree[d]]

\* A variant that removes the directory and leaves what is below it.
remove_all_DirectoryOnly(tree, dir) ==
    [d \in DOMAIN tree \ {dir} |-> tree[d]]

\* std::filesystem::remove_all.
remove_all(tree, dir) ==
    [d \in {e \in DOMAIN tree : ~IsPrefix(dir, e)} |-> tree[d]]

----------------------------------------------------------------------------
(* Node operations: each yields the outcome of the call on a given tree. *)

\* The checks every operation starts with: the open state (open, or
\* writable), the type of the node the call is made through, the name.
Preliminaries(state_check, node, normalized_name) ==
    IF state_check # "ok" THEN state_check
    ELSE IF assert_is_node_group(node) # "ok" THEN assert_is_node_group(node)
    ELSE assert_is_valid_node_normalized_relpath(normalized_name)

\* A variant that fails on a missing directory, as get_node does.
has_node_Throwing(tree, node, name, filestates, nodetype) ==
    LET normalized_name == lexically_normal(name)
        pre == Preliminaries(assert_file_open(filestates), node, normalized_name)
        dirpath == Below(path(node), normalized_name)
    IN  IF pre # "ok" THEN Fail(pre, tree)
        ELSE IF assert_exists_directory(tree, dirpath) # "ok"
            THEN Fail(assert_exists_directory(tree, dirpath), tree)
        ELSE Outcome("ok", TypeMatches(read_node_meta(tree, dirpath), nodetype),
                     NoDir, tree)

has_node(tree, node, name, filestates, nodetype) ==
    LET normalized_name == lexically_normal(name)
        pre == Preliminaries(assert_file_open(filestates), node, normalized_name)
        dirpath == Below(path(node), normalized_name)
    IN  IF pre # "ok" THEN Fail(pre, tree)
        ELSE IF ~is_directory(tree, dirpath) THEN Outcome("ok", FALSE, NoDir, tree)
        ELSE IF ~TypeMatches(read_node_meta(tree, dirpath), nodetype)
            THEN Outcome("ok", FALSE, NoDir, tree)
        ELSE Outcome("ok", TRUE, NoDir, tree)

get_node(tree, node, name, filestates, nodetype) ==
    LET normalized_name == lexically_normal(name)
        pre == Preliminaries(assert_file_open(filestates), node, normalized_name)
        dirpath == Below(path(node), normalized_name)
    IN  IF pre # "ok" THEN Fail(pre, tree)
        ELSE IF assert_exists_directory(tree, dirpath) # "ok"
            THEN Fail(assert_exists_directory(tree, dirpath), tree)
        ELSE IF ~TypeMatches(read_node_meta(tree, dirpath), nodetype)
            THEN Fail("TypeMismatch", tree)
        ELSE Outcome("ok",
                     Node(read_node_meta(tree, dirpath),
                          node.relpath \o Parts(normalized_name)),
                     dirpath, tree)

\* The relative path of the node create_node_immediate returns:
\* Node { meta, node.root, normalized_name }.
CreatedRelpath(node, normalized_name) == Parts(normalized_name)

\* Will not create nodes for intermediate directories.
create_node_immediate(tree, node, name, filestates, nodetype) ==
    LET normalized_name == lexically_normal(name)
        pre == Preliminaries(assert_file_writable(filestates), node,
                             normalized_name)
        dirpath == Below(path(node), normalized_name)
    IN  IF pre # "ok" THEN Fail(pre, tree)
        ELSE IF assert_not_exists(tree, dirpath) # "ok"
            THEN Fail(assert_not_exists(tree, dirpath), tree)
        ELSE IF ~CanCreateDirectory(tree, dirpath) THEN Fail("IOError", tree)
        ELSE Outcome("ok",
                     Node(nodetype, CreatedRelpath(node, normalized_name)),
                     dirpath,
                     write_node_meta(tree, dirpath, nodetype))

\* The loop of require_node over the parts of the normalized name, from
\* part i on, with cur_node the node reached so far and cur_dir the
\* directory that node was resolved or created at.
RECURSIVE RequireLoop(_, _, _, _, _, _, _)
RequireLoop(tree, cur_node, cur_dir, parts, i, filestates, nodetype) ==
    IF i > Len(parts) THEN Outcome("ok", cur_node, cur_dir, tree)
    ELSE LET required_node_type == IF i = Len(parts) THEN nodetype ELSE "group"
             part == <<parts[i]>>
             step == IF is_directory(tree, Below(path(cur_node), part))
                     THEN get_node(tree, cur_node, part, filestates,
                                   required_node_type)
                     ELSE create_node_immediate(tree, cur_node, part, filestates,
                                                required_node_type)
         IN IF step.err # "ok" THEN step
            ELSE RequireLoop(step.tree, step.val, step.dir, parts, i + 1,
                             filestates, nodetype)

\* A variant that removes, when it fails, what it has created.
require_node_Rollback(tree, node, name, filestates, nodetype) ==
    LET normalized_name == lexically_normal(name)
        pre == Preliminaries(assert_file_open(filestates), node, normalized_name)
        out == RequireLoop(tree, node, path(node), Parts(normalized_name), 1,
                           filestates, nodetype)
    IN  IF pre # "ok" THEN Fail(pre, tree)
        ELSE IF out.err # "ok" THEN Fail(out.err, tree)
        ELSE out

\* All intermediate directories must be groups or non-exist.
require_node(tree, node, name, filestates, nodetype) ==
    LET normalized_name == lexically_normal(name)
        pre == Preliminaries(assert_file_open(filestates), node, normalized_name)
    IN  IF pre # "ok" THEN Fail(pre, tree)
        ELSE RequireLoop(tree, node, path(node), Parts(normalized_name), 1,
                         filestates, nodetype)

create_node(tree, node, name, filestates, nodetype) ==
    LET normalized_name == lexically_normal(name)
        pre == Preliminaries(assert_file_writable(filestates), node,
                             normalized_name)
        cur_node == IF has_parent_path(normalized_name)
                    THEN require_node(tree, node, parent_path(normalized_name),
                                      filestates, "group")
                    ELSE Outcome("ok", node, path(node), tree)
    IN  IF pre # "ok" THEN Fail(pre, tree)
        ELSE IF cur_node.err # "ok" THEN cur_node
        ELSE create_node_immediate(cur_node.tree, cur_node.val,
                                   filename(normalized_name), filestates,
                                   nodetype)

delete_node(tree, node, name, filestates) ==
    LET normalized_name == lexically_normal(name)
        pre == Preliminaries(assert_file_writable(filestates), node,
                             normalized_name)
        dirpath == Below(path(node), normalized_name)
    IN  IF pre # "ok" THEN Fail(pre, tree)
        ELSE IF assert_exists_directory(tree, dirpath) # "ok"
            THEN Fail(assert_exists_directory(tree, dirpath), tree)
        ELSE Outcome("ok", NoNode, NoDir, remove_all(tree, dirpath))

----------------------------------------------------------------------------
(* Dataset handle: the payload file data.npy in the node's directory.  The *)
(* value and the raw-buffer forms make the same checks before the codec    *)
(* is called.                                                              *)

\* npy::load / npy::load_header on filepath(): the file must open.
npy_load(tree, node) ==
    IF ~is_directory(tree, path(node)) THEN Fail("IOError", tree)
    ELSE IF tree[path(node)].data = NoFile THEN Fail("IOError", tree)
    ELSE Outcome("ok", tree[path(node)].data, NoDir, tree)

\* npy::save on filepath(): the file is opened for writing in its directory.
npy_save(tree, node, val) ==
    IF ~is_directory(tree, path(node)) THEN Fail("IOError", tree)
    ELSE Outcome("ok", NoNode, NoDir,
                 [tree EXCEPT ![path(node)].data = val])

Dataset_load_npy_header(tree, node, filestates) == npy_load(tree, node)

Dataset_load_to(tree, node, filestates) ==
    IF assert_file_open(filestates) # "ok"
        THEN Fail(assert_file_open(filestates), tree)
    ELSE IF assert_is_node_dataset(node) # "ok"
        THEN Fail(assert_is_node_dataset(node), tree)
    ELSE npy_load(tree, node)

Dataset_save_from(tree, node, filestates, val) ==
    IF assert_file_writable(filestates) # "ok"
        THEN Fail(assert_file_writable(filestates), tree)
    ELSE IF assert_is_node_dataset(node) # "ok"
        THEN Fail(assert_is_node_dataset(node), tree)
    ELSE npy_save(tree, node, val)

\* The value of an expression under a name, worked out once.
Bound(e, Body(_)) == CHOOSE r \in {Body(x) : x \in {e}} : TRUE

\* Group::create_dataset: Dataset dataset(create_node(node_, name, *pstates_,
\* Dataset), pstates_); dataset.save_from(args); return dataset.
Group_create_dataset(tree, node, name, filestates, val) ==
    Bound(create_node(tree, node, name, filestates, "dataset"),
          LAMBDA created :
        IF created.err # "ok" THEN created
        ELSE Bound(Dataset_save_from(created.tree, created.val, filestates, val),
                   LAMBDA saved :
            IF saved.err # "ok" THEN Fail(saved.err, saved.tree)
            ELSE Outcome("ok", created.val, created.dir, saved.tree)))

----------------------------------------------------------------------------
(* Attributes: the document attributes.json in the node's directory.  An   *)
(* Attribute value is the path of the document, named here by the          *)
(* directory that holds it.                                                *)

\* The document get_attribute writes on first writable access.
EmptyDoc == "{}"

\* A variant that never finds the document.
exists_attr_Never(tree, dir) == FALSE

\* std::filesystem::exists(jsonfilepath).
exists_attr(tree, dir) == is_directory(tree, dir) /\ tree[dir].attr # NoFile

\* std::ofstream ofs { jsonfilepath }; ofs << doc: the file opens only in
\* an existing directory, and a stream that did not open writes nothing.
write_attr(tree, dir, doc) ==
    IF is_directory(tree, dir) THEN [tree EXCEPT ![dir].attr = doc] ELSE tree

get_attribute(tree, node, filestates) ==
    LET jsonfilepath == node.relpath
    IN  IF assert_file_open(filestates) # "ok"
            THEN Fail(assert_file_open(filestates), tree)
        ELSE IF ~exists_attr(tree, jsonfilepath) THEN
            IF filestates = "ReadOnly" THEN Fail("StateError", tree)
            ELSE IF filestates = "ReadWrite"
                THEN Outcome("ok", jsonfilepath, jsonfilepath,
                             write_attr(tree, jsonfilepath, EmptyDoc))
            ELSE Outcome("ok", jsonfilepath, jsonfilepath, tree)
        ELSE Outcome("ok", jsonfilepath, jsonfilepath, tree)

load_attr(tree, attr) ==
    IF ~exists_attr(tree, attr) THEN Fail("IOError", tree)
    ELSE Outcome("ok", tree[attr].attr, NoDir, tree)

save_attr(tree, val, attr) ==
    IF ~is_directory(tree, attr) THEN Fail("IOError", tree)
    ELSE Outcome("ok", NoNode, NoDir, write_attr(tree, attr, val))

\* load_attr() and save_attr(val) of the Dataset and Group handles (a File
\* gives its Group): core::load_attr / save_attr on get_attribute's result.
Group_load_attr(tree, node, filestates) ==
    LET attr == get_attribute(tree, node, filestates)
    IN  IF attr.err # "ok" THEN attr ELSE load_attr(attr.tree, attr.val)

Group_save_attr(tree, node, filestates, val) ==
    LET attr == get_attribute(tree, node, filestates)
    IN  IF attr.err # "ok" THEN attr ELSE save_attr(attr.tree, val, attr.val)

----------------------------------------------------------------------------
(* File: open modes and the open state. *)

Read == "Read"
Write == "Write"
Create == "Create"
Excl == "Excl"
Truncate == "Truncate"

ModeReadOnly == {Read}
ModeReadWrite == {Read, Write}
ModeCreateWrite == {Read, Write, Create}
ModeOverwrite == {Read, Write, Create, Truncate}

Modes == {ModeReadOnly, ModeReadWrite, ModeCreateWrite, ModeOverwrite,
          {Read, Write, Create, Excl}}

RootDir == <<>>
RootNode == Node("file", <<>>)

\* create_file_node on an absent path.
create_file_node(tree) ==
    IF is_directory(tree, RootDir) THEN Fail("AlreadyExists", tree)
    ELSE Outcome("ok", RootNode, RootDir, (RootDir :> Entry("file", NoFile)))

get_file_node(tree) ==
    IF ~is_directory(tree, RootDir) THEN Fail("NotFound", tree)
    ELSE IF read_node_meta(tree, RootDir) = NoFile THEN Fail("IOError", tree)
    ELSE IF read_node_meta(tree, RootDir) # "file" THEN Fail("TypeMismatch", tree)
    ELSE Outcome("ok", RootNode, RootDir, tree)

delete_file_node(tree) ==
    IF assert_exists_directory(tree, RootDir) # "ok"
        THEN Fail(assert_exists_directory(tree, RootDir), tree)
    ELSE Outcome("ok", NoNode, NoDir, remove_all(tree, RootDir))

\* A variant that opens an existing directory as it is when Truncate is set.
File_open_KeepContent(tree, mode) ==
    IF is_directory(tree, RootDir) THEN
        IF Excl \in mode THEN Fail("AlreadyExists", tree)
        ELSE get_file_node(tree)
    ELSE
        IF Create \in mode THEN create_file_node(tree)
        ELSE Fail("NotFound", tree)

\* File::open after close(): the directory decision.
File_open(tree, mode) ==
    IF is_directory(tree, RootDir) THEN
        IF Excl \in mode THEN Fail("AlreadyExists", tree)
        ELSE IF Truncate \in mode
            THEN create_file_node(remove_all(tree, RootDir))
        ELSE get_file_node(tree)
    ELSE
        IF Create \in mode THEN create_file_node(tree)
        ELSE Fail("NotFound", tree)

\* pstates_->open_state = (mode & Write) ? ReadWrite : ReadOnly.
OpenStateOf(mode) == IF Write \in mode THEN "ReadWrite" ELSE "ReadOnly"

----------------------------------------------------------------------------
(* The calls a single caller makes. *)

NamePaths == UNION {[1..n -> Names] : n \in 1..MaxDepth}

\* Spellings that are not the plain name/name/... form.
OddPaths ==
    { <<>>, <<".">>, <<"..">>, <<"/">>, <<"/", "g1">>, <<"g1", "/">>,
      <<"..", "/", "g1">>, <<".", "/", "g1">>, <<"g1", "/", "/", "d1">>,
      <<"g1", "/", ".", "/", "d1">>, <<"g1", "/", "..", "/", "d1">>,
      <<"g1", "/", "..">>, <<"g1", "/", "d1", "/", "..">> }

\* Every path string the claims are checked for.
AllPaths == {Join(p) : p \in NamePaths} \cup OddPaths

\* The names the calls are explored with: a rejected one, a second spelling
\* and, through a node at depth d, the plain ones of up to k segments that
\* stay within MaxDepth below the root.
OddInputs == { <<>>, <<"g1", "/">>, <<"g1", "/", "..", "/", "d1">> }

Smaller(a, b) == IF a <= b THEN a ELSE b

InputsAt(k) ==
    [d \in 0..MaxDepth |->
        {Join(p) : p \in UNION {[1..n -> Names] :
                                    n \in 1..Smaller(k, MaxDepth - d)}}
            \cup OddInputs]

PathInputsAt == InputsAt(MaxDepth)
QueryInputsAt == InputsAt(MaxQueryDepth)
DataInputsAt == InputsAt(MaxDataDepth)

ArgTypes == {"group", "dataset"}

\* A handle the caller holds: the node value returned to it, and (for the
\* record) whether its path() is the directory that the call which
\* returned it resolved or created.
Handle(node, dir) == [node |-> node, exact |-> (path(node) = dir)]

\* The nodes a call can be made through: the File's own and those held.
Held == {h.node : h \in handles}
Parents == {RootNode} \cup Held

Called(op, out) == [op |-> op, err |-> out.err]

\* The part of the store that is explored.
InBounds(tree, maxNodes) ==
    /\ Cardinality(DOMAIN tree) <= maxNodes + 1
    /\ \A d \in DOMAIN tree : Len(d) <= MaxDepth

\* The caller keeps the returned node, or lets it go.
Keep(out) ==
    \/ handles' = handles
    \/ /\ out.err = "ok"
       /\ Len(out.val.relpath) <= MaxHandleDepth
       /\ Cardinality(handles \cup {Handle(out.val, out.dir)}) <= MaxHandles
       /\ handles' = handles \cup {Handle(out.val, out.dir)}

\* The File objects and the codec at rest.
NoObjects == heap = <<>> /\ files = <<>> /\ derived = {} /\ callers = <<>>
NoArray == array = <<>> /\ stream = <<>> /\ loaded = <<>> /\ build = <<>>

Init ==
    /\ fs = (RootDir :> Entry("file", NoFile))
    /\ open_state = "ReadWrite"
    /\ handles = {}
    /\ last = [op |-> "open", err |-> "ok"]
    /\ NoObjects
    /\ NoArray

DoHasNode(inputsAt) ==
    \E node \in Parents :
        \E name \in inputsAt[Len(path(node))], nodetype \in ArgTypes :
            \E out \in {has_node(fs, node, name, open_state, nodetype)} :
                /\ UNCHANGED <<lifetime, codec>>
                /\ last' = Called("has_node", out)
                /\ fs' = out.tree
                /\ UNCHANGED <<open_state, handles>>

DoGetNode(inputsAt) ==
    \E node \in Parents :
        \E name \in inputsAt[Len(path(node))], nodetype \in ArgTypes :
            \E out \in {get_node(fs, node, name, open_state, nodetype)} :
                /\ UNCHANGED <<lifetime, codec>>
                /\ last' = Called("get_node", out)
                /\ fs' = out.tree
                /\ Keep(out)
                /\ UNCHANGED open_state

DoCreateNode(inputsAt, maxNodes) ==
    \E node \in Parents :
        \E name \in inputsAt[Len(path(node))], nodetype \in ArgTypes :
            \E out \in {create_node(fs, node, name, open_state, nodetype)} :
                /\ InBounds(out.tree, maxNodes)
                /\ UNCHANGED <<lifetime, codec>>
                /\ last' = Called("create_node", out)
                /\ fs' = out.tree
                /\ Keep(out)
                /\ UNCHANGED open_state

DoRequireNode(inputsAt, maxNodes) ==
    \E node \in Parents :
        \E name \in inputsAt[Len(path(node))], nodetype \in ArgTypes :
            \E out \in {require_node(fs, node, name, open_state, nodetype)} :
                /\ InBounds(out.tree, maxNodes)
                /\ UNCHANGED <<lifetime, codec>>
                /\ last' = Called("require_node", out)
                /\ fs' = out.tree
                /\ Keep(out)
                /\ UNCHANGED open_state

DoDeleteNode(inputsAt) ==
    \E node \in Parents :
        \E name \in inputsAt[Len(path(node))] :
            \E out \in {delete_node(fs, node, name, open_state)} :
                /\ UNCHANGED <<lifetime, codec>>
                /\ last' = Called("delete_node", out)
                /\ fs' = out.tree
                /\ UNCHANGED <<open_state, handles>>

HasNode == DoHasNode(QueryInputsAt)
GetNode == DoGetNode(QueryInputsAt)
CreateNode == DoCreateNode(PathInputsAt, MaxNodes)
RequireNode == DoRequireNode(PathInputsAt, MaxNodes)
DeleteNode == DoDeleteNode(QueryInputsAt)

\* File::open: close(), a fresh FileStates set from the mode, then the
\* directory decision.  Handles derived before refer to the FileStates the
\* File released, and are let go.
OpenFile ==
    \E mode \in Modes :
        \E out \in {File_open(fs, mode)} :
            /\ UNCHANGED <<lifetime, codec>>
            /\ last' = Called("open", out)
            /\ fs' = out.tree
            /\ open_state' = OpenStateOf(mode)
            /\ handles' = {}

\* File::close.
CloseFile ==
    /\ open_state' = "Closed"
    /\ UNCHANGED <<lifetime, codec>>
    /\ last' = [op |-> "close", err |-> "ok"]
    /\ UNCHANGED <<fs, handles>>

\* A handle goes out of scope.
DropHandle ==
    \E h \in handles :
        /\ handles' = handles \ {h}
        /\ UNCHANGED <<fs, open_state, last, lifetime, codec>>

Next ==
    \/ HasNode
    \/ GetNode
    \/ CreateNode
    \/ RequireNode
    \/ DeleteNode
    \/ OpenFile
    \/ CloseFile
    \/ DropHandle

\* The Node Store under a File that is opened and closed.
Spec == Init /\ [][Next]_vars

----------------------------------------------------------------------------
(* The payload calls, on a store of datasets directly below the root. *)

DataGetNode == DoGetNode(DataInputsAt)
DataCreateNode == DoCreateNode(DataInputsAt, MaxDataNodes)
DataDeleteNode == DoDeleteNode(DataInputsAt)

DatasetLoadNpyHeader ==
    \E node \in Held :
        \E out \in {Dataset_load_npy_header(fs, node, open_state)} :
            /\ UNCHANGED <<lifetime, codec>>
            /\ last' = Called("load_npy_header", out)
            /\ fs' = out.tree
            /\ UNCHANGED <<open_state, handles>>

DatasetLoadTo ==
    \E node \in Held :
        \E out \in {Dataset_load_to(fs, node, open_state)} :
            /\ UNCHANGED <<lifetime, codec>>
            /\ last' = Called("load_to", out)
            /\ fs' = out.tree
            /\ UNCHANGED <<open_state, handles>>

DatasetSaveFrom ==
    \E node \in Held, val \in Values :
        \E out \in {Dataset_save_from(fs, node, open_state, val)} :
            /\ UNCHANGED <<lifetime, codec>>
            /\ last' = Called("save_from", out)
            /\ fs' = out.tree
            /\ UNCHANGED <<open_state, handles>>

CreateDataset ==
    \E node \in Parents :
        \E name \in DataInputsAt[Len(path(node))], val \in Values :
            \E out \in {Group_create_dataset(fs, node, name, open_state, val)} :
                /\ InBounds(out.tree, MaxDataNodes)
                /\ UNCHANGED <<lifetime, codec>>
                /\ last' = Called("create_dataset", out)
                /\ fs' = out.tree
                /\ Keep(out)
                /\ UNCHANGED open_state

NextData ==
    \/ DataGetNode
    \/ DataCreateNode
    \/ CreateDataset
    \/ DataDeleteNode
    \/ DatasetLoadNpyHeader
    \/ DatasetLoadTo
    \/ DatasetSaveFrom
    \/ OpenFile
    \/ CloseFile
    \/ DropHandle

SpecData == Init /\ [][NextData]_vars

----------------------------------------------------------------------------
(* The attribute calls, on a small store. *)

AttrGetNode == DoGetNode(DataInputsAt)
AttrCreateNode == DoCreateNode(DataInputsAt, MaxAttrNodes)
AttrDeleteNode == DoDeleteNode(DataInputsAt)

GetAttribute ==
    \E node \in Parents :
        \E out \in {get_attribute(fs, node, open_state)} :
            /\ UNCHANGED <<lifetime, codec>>
            /\ last' = Called("get_attribute", out)
            /\ fs' = out.tree
            /\ UNCHANGED <<open_state, handles>>

LoadAttr ==
    \E node \in Parents :
        \E out \in {Group_load_attr(fs, node, open_state)} :
            /\ UNCHANGED <<lifetime, codec>>
            /\ last' = Called("load_attr", out)
            /\ fs' = out.tree
            /\ UNCHANGED <<open_state, handles>>

SaveAttr ==
    \E node \in Parents, val \in Values :
        \E out \in {Group_save_attr(fs, node, open_state, val)} :
            /\ UNCHANGED <<lifetime, codec>>
            /\ last' = Called("save_attr", out)
            /\ fs' = out.tree
            /\ UNCHANGED <<open_state, handles>>

NextAttr ==
    \/ AttrGetNode
    \/ AttrCreateNode
    \/ AttrDeleteNode
    \/ GetAttribute
    \/ LoadAttr
    \/ SaveAttr
    \/ OpenFile
    \/ CloseFile
    \/ DropHandle

SpecAttr == Init /\ [][NextAttr]_vars

----------------------------------------------------------------------------
(* File::open on whatever is found at the path: nothing, a File, a node    *)
(* directory of another type, a directory without descriptor.              *)

\* Every combination of the mode flags.
AnyMode == SUBSET {Read, Write, Create, Excl, Truncate}

\* No directory at the path.
Absent == remove_all((RootDir :> Entry("file", NoFile)), RootDir)

\* What can be at the path before a File is constructed on it.
Found ==
    {Absent} \cup
    {(RootDir :> Entry(type, NoFile)) :
        type \in {"file", "group", "dataset", "raw", NoFile}}

\* File::File before open(): pstates_(new FileStates { Closed }).
InitFile ==
    /\ fs \in Found
    /\ open_state = "Closed"
    /\ handles = {}
    /\ last = [op |-> "none", err |-> "ok"]
    /\ NoObjects
    /\ NoArray

\* File::open(path, mode), with the mode it was called with on record.
FileOpen ==
    \E mode \in AnyMode :
        \E out \in {File_open(fs, mode)} :
            /\ UNCHANGED <<lifetime, codec>>
            /\ last' = [op |-> "open", err |-> out.err, mode |-> mode]
            /\ fs' = out.tree
            /\ open_state' = OpenStateOf(mode)
            /\ handles' = {}

\* create_node through the File, when its last open did not fail.
FileCreateNode ==
    /\ ~(last.op = "open" /\ last.err # "ok")
    /\ last.op # "none"
    /\ \E name \in DataInputsAt[0], nodetype \in ArgTypes :
           \E out \in {create_node(fs, RootNode, name, open_state, nodetype)} :
               /\ InBounds(out.tree, MaxFileNodes)
               /\ UNCHANGED <<lifetime, codec>>
               /\ last' = Called("create_node", out)
               /\ fs' = out.tree
               /\ UNCHANGED <<open_state, handles>>

DeleteFileNode ==
    \E out \in {delete_file_node(fs)} :
        /\ UNCHANGED <<lifetime, codec>>
        /\ last' = Called("delete_file_node", out)
        /\ fs' = out.tree
        /\ UNCHANGED <<open_state, handles>>

NextFile ==
    \/ FileOpen
    \/ FileCreateNode
    \/ DeleteFileNode
    \/ CloseFile

SpecFile == InitFile /\ [][NextFile]_vars

----------------------------------------------------------------------------
(* The File objects, the FileStates they own and the handles derived from
   them.  A FileStates lives on the heap; a File holds it through the
   unique_ptr pstates_, its group_ and every derived handle through a raw
   pointer. *)

MaxAddr == 3
\* The handles the caller holds on to at a time.
MaxDerived == 1
Addr == 1..MaxAddr
Null == 0
FileIds == {"f1", "f2"}

\* Freed memory, and a File that is not constructed.
Freed == "free"
NoObject == [alive |-> FALSE, pstates |-> Null, group |-> Null]

FreeAddr(hp) == {a \in Addr : hp[a] = Freed}

\* What became of a call on a File object: the heap, the object and the
\* directory after it.  "undefined" is a call whose behaviour is undefined.
Did(err, hp, file, tree) ==
    [err |-> err, heap |-> hp, file |-> file, tree |-> tree]

\* File::close(): pstates_->open_state = Closed.
File_close(hp, file, tree) ==
    IF file.pstates = Null THEN Did("undefined", hp, file, tree)
    ELSE Did("ok", [hp EXCEPT ![file.pstates] = "Closed"], file, tree)

\* File::open(path, mode): close(), then make_unique at the address a and
\* the release of the FileStates held before, then the directory decision;
\* group_ is assigned only when that does not throw.
File_reopen(hp, file, tree, mode, a) ==
    LET closed == File_close(hp, file, tree)
        out == File_open(tree, mode)
        made == [closed.heap EXCEPT ![a] = OpenStateOf(mode),
                                     ![file.pstates] = Freed]
    IN  IF closed.err # "ok" THEN closed
        ELSE Did(out.err, made,
                 [file EXCEPT !.pstates = a,
                              !.group = IF out.err = "ok" THEN a ELSE @],
                 out.tree)

\* What a read of open_state through the pointer p gives: the value of the
\* FileStates when it is alive, and anything when it was released.
Observed(hp, p) ==
    IF hp[p] = Freed THEN FileOpenState \cup {"undefined"} ELSE {hp[p]}

Running == last.err # "undefined"

InitLife ==
    /\ fs \in {Absent, (RootDir :> Entry("file", NoFile))}
    /\ open_state = "Closed"
    /\ handles = {}
    /\ last = [op |-> "none", err |-> "ok"]
    /\ heap = [a \in Addr |-> Freed]
    /\ files = [f \in FileIds |-> NoObject]
    /\ derived = {}
    /\ callers = <<>>
    /\ NoArray

\* File::File(path, mode): pstates_(new FileStates { Closed }), open().  When
\* open() throws, the members are destroyed and there is no object.
LifeConstruct ==
    /\ Running
    /\ \E f \in FileIds, mode \in Modes, a0 \in FreeAddr(heap) :
        /\ ~files[f].alive
        /\ \E a \in FreeAddr(heap) \ {a0} :
            \E did \in {File_reopen([heap EXCEPT ![a0] = "Closed"],
                            [alive |-> TRUE, pstates |-> a0, group |-> Null],
                            fs, mode, a)} :
                /\ last' = [op |-> "File", err |-> did.err, file |-> f]
                /\ fs' = did.tree
                /\ IF did.err = "ok"
                     THEN /\ heap' = did.heap
                          /\ files' = [files EXCEPT ![f] = did.file]
                     ELSE /\ heap' = [did.heap EXCEPT ![did.file.pstates] = Freed]
                          /\ UNCHANGED files
                /\ UNCHANGED <<open_state, handles, derived, callers, codec>>

\* file.open(path, mode) on an object that exists.
LifeOpen ==
    /\ Running
    /\ \E f \in FileIds, mode \in Modes, a \in FreeAddr(heap) :
        /\ files[f].alive
        /\ \E did \in {File_reopen(heap, files[f], fs, mode, a)} :
            /\ last' = [op |-> "open", err |-> did.err, file |-> f]
            /\ fs' = did.tree
            /\ heap' = did.heap
            /\ files' = [files EXCEPT ![f] = did.file]
            /\ UNCHANGED <<open_state, handles, derived, callers, codec>>

\* file.close().
LifeClose ==
    /\ Running
    /\ \E f \in FileIds :
        /\ files[f].alive
        /\ \E did \in {File_close(heap, files[f], fs)} :
            /\ last' = [op |-> "close", err |-> did.err, file |-> f]
            /\ heap' = did.heap
            /\ UNCHANGED <<fs, open_state, handles, files, derived, callers, codec>>

\* File(File&&) = default: the new object takes pstates_ and leaves the old
\* one with nullptr; group_ is copied.
LifeMove ==
    /\ Running
    /\ \E f \in FileIds, g \in FileIds :
        /\ files[f].alive /\ ~files[g].alive
        /\ files' = [files EXCEPT ![g] = files[f], ![f].pstates = Null]
        /\ last' = [op |-> "move", err |-> "ok", file |-> g]
        /\ UNCHANGED <<fs, open_state, handles, heap, derived, callers, codec>>

\* ~File(): close(), then the members are destroyed.  The caller lets the
\* handles derived from the object go.
LifeDestroy ==
    /\ Running
    /\ \E f \in FileIds :
        /\ files[f].alive
        /\ \E did \in {File_close(heap, files[f], fs)} :
            /\ last' = [op |-> "~File", err |-> did.err, file |-> f]
            /\ heap' = IF did.err = "ok"
                         THEN [did.heap EXCEPT ![files[f].pstates] = Freed]
                         ELSE did.heap
            /\ files' = [files EXCEPT ![f] = NoObject]
            /\ derived' = {h \in derived : h.of # f}
            /\ UNCHANGED <<fs, open_state, handles, callers, codec>>

\* file.get_group(name) and the like: Group(node, pstates_) with the raw
\* pointer of group_, on a File whose group_ sees an open state.
LifeDerive ==
    /\ Running
    /\ \E f \in FileIds :
        /\ files[f].alive /\ files[f].group # Null
        /\ heap[files[f].group] \in {"ReadOnly", "ReadWrite"}
        /\ Cardinality(derived \cup {[of |-> f, pstates |-> files[f].group]})
               <= MaxDerived
        /\ derived' = derived \cup {[of |-> f, pstates |-> files[f].group]}
        /\ last' = [op |-> "get_node", err |-> "ok", file |-> f]
        /\ UNCHANGED <<fs, open_state, handles, heap, files, callers, codec>>

\* A call through a derived handle: it reads *pstates_ and checks it.
LifeUse ==
    /\ Running
    /\ \E h \in derived : \E seen \in Observed(heap, h.pstates) :
        /\ last' = [op |-> "has_node",
                    err |-> IF seen = "undefined" THEN seen
                            ELSE assert_file_open(seen),
                    file |-> h.of]
        /\ UNCHANGED <<fs, open_state, handles, lifetime, codec>>

NextLife ==
    \/ LifeConstruct
    \/ LifeOpen
    \/ LifeClose
    \/ LifeMove
    \/ LifeDestroy
    \/ LifeDerive
    \/ LifeUse

SpecLife == InitLife /\ [][NextLife]_vars

----------------------------------------------------------------------------
(* The .npy codec.  A stream is a sequence of bytes, a byte a number in
   0..255; text is written here character by character and stands for its
   ASCII codes. *)

Byte == 0..255

Ascii ==
    " " :> 32 @@ "\n" :> 10 @@ "'" :> 39 @@ "(" :> 40 @@ ")" :> 41 @@ "," :> 44 @@
    ":" :> 58 @@ "<" :> 60 @@ ">" :> 62 @@ "|" :> 124 @@ "{" :> 123 @@ "}" :> 125 @@
    "0" :> 48 @@ "1" :> 49 @@ "2" :> 50 @@ "3" :> 51 @@ "4" :> 52 @@ "5" :> 53 @@
    "6" :> 54 @@ "7" :> 55 @@ "8" :> 56 @@ "9" :> 57 @@ "F" :> 70 @@ "M" :> 77 @@
    "N" :> 78 @@ "P" :> 80 @@ "T" :> 84 @@ "U" :> 85 @@ "Y" :> 89 @@ "_" :> 95 @@
    "a" :> 97 @@ "c" :> 99 @@ "d" :> 100 @@ "e" :> 101 @@ "f" :> 102 @@ "h" :> 104 @@
    "i" :> 105 @@ "l" :> 108 @@ "n" :> 110 @@ "o" :> 111 @@ "p" :> 112 @@ "r" :> 114 @@
    "s" :> 115 @@ "t" :> 116 @@ "u" :> 117

Tab == 9

\* The bytes of a text.
Chars(text) == [i \in 1..Len(text) |-> Ascii[text[i]]]

\* constexpr char magic_string[] = "\x93NUMPY", and the other constants.
magic_string == <<147>> \o Chars(<<"N", "U", "M", "P", "Y">>)
magic_string_length == Len(magic_string)
header_alignment == 64
char_little_endian == Ascii["<"]
char_big_endian == Ascii[">"]
char_no_endian == Ascii["|"]

\* The builds: the host byte order and whether plain char is signed.
Builds == [endian : {"little", "big"}, char_signed : BOOLEAN]
char_host_endian(bld) ==
    IF bld.endian = "big" THEN char_big_endian ELSE char_little_endian

\* struct Version, Dtype, Header.
Version(major, minor) == [major |-> major, minor |-> minor]
Dtype(byteorder, kind, itemsize) ==
    [byteorder |-> byteorder, kind |-> kind, itemsize |-> itemsize]
Header(dtype, fortran_order, shape) ==
    [dtype |-> dtype, fortran_order |-> fortran_order, shape |-> shape]

RECURSIVE Product(_)
Product(shape) ==
    IF shape = <<>> THEN 1 ELSE shape[1] * Product(Tail(shape))

\* Header::length, Header::numbytes.
length(header) == Product(header.shape)
numbytes(header) == length(header) * header.dtype.itemsize

kind_size_multiplier(kind) == IF kind = Ascii["U"] THEN 4 ELSE 1

\* The element types of the callers, and NormalizedIntegralOf<T> for those
\* that are not one of the fixed-width types themselves.
ElementTypes ==
    {"int8", "int16", "int32", "int64", "uint8", "uint16", "uint32", "uint64",
     "bool", "char", "float", "double", "complex<float>", "complex<double>"}

NormalizedIntegralOf(type, bld) ==
    CASE type = "bool" -> "uint8"
      [] type = "char" -> IF bld.char_signed THEN "int8" ELSE "uint8"
      [] OTHER -> type

\* internal::dtype(T).
dtype(type, bld) ==
    LET t == NormalizedIntegralOf(type, bld)
        host == char_host_endian(bld)
    IN  CASE t = "int8" -> Dtype(char_no_endian, Ascii["i"], 1)
          [] t = "int16" -> Dtype(host, Ascii["i"], 2)
          [] t = "int32" -> Dtype(host, Ascii["i"], 4)
          [] t = "int64" -> Dtype(host, Ascii["i"], 8)
          [] t = "uint8" -> Dtype(char_no_endian, Ascii["u"], 1)
          [] t = "uint16" -> Dtype(host, Ascii["u"], 2)
          [] t = "uint32" -> Dtype(host, Ascii["u"], 4)
          [] t = "uint64" -> Dtype(host, Ascii["u"], 8)
          [] t = "float" -> Dtype(host, Ascii["f"], 4)
          [] t = "double" -> Dtype(host, Ascii["f"], 8)
          [] t = "complex<float>" -> Dtype(host, Ascii["c"], 8)
          [] t = "complex<double>" -> Dtype(host, Ascii["c"], 16)

\* create_header<T>(fortran_order, shape).
create_header(type, bld, fortran_order, shape) ==
    Header(dtype(type, bld), fortran_order, shape)

\* std::to_string and operator<< of an unsigned number: its decimal digits.
RECURSIVE to_string(_)
to_string(n) ==
    IF n < 10 THEN <<Ascii["0"] + n>>
    ELSE to_string(n \div 10) \o <<Ascii["0"] + (n % 10)>>

IsDigit(b) == b >= Ascii["0"] /\ b <= Ascii["9"]

\* std::from_chars into an unsigned number that holds init: the leading
\* digits, and init when there is none.
RECURSIVE Digits(_, _)
Digits(sv, acc) ==
    IF sv = <<>> \/ ~IsDigit(sv[1]) THEN acc
    ELSE Digits(Tail(sv), 10 * acc + (sv[1] - Ascii["0"]))

from_chars(sv, init) ==
    IF sv = <<>> \/ ~IsDigit(sv[1]) THEN init ELSE Digits(sv, 0)

\* write_magic: the magic string and the two version bytes.
write_magic(version) == magic_string \o <<version.major, version.minor>>

\* preamble_length(version).
preamble_length(version) ==
    IF version.major = 1 THEN magic_string_length + 2 + 2
    ELSE magic_string_length + 2 + 4

\* gen_descr(dtype): no quote.
gen_descr(dt) ==
    <<dt.byteorder, dt.kind>>
        \o to_string(dt.itemsize \div kind_size_multiplier(dt.kind))

\* gen_shape(shape): no parentheses.
RECURSIVE ShapeItems(_)
ShapeItems(shape) ==
    IF Len(shape) = 1 THEN to_string(shape[1])
    ELSE to_string(shape[1]) \o Chars(<<",", " ">>) \o ShapeItems(Tail(shape))

gen_shape(shape) ==
    IF Len(shape) = 0 THEN <<>>
    ELSE IF Len(shape) = 1 THEN to_string(shape[1]) \o Chars(<<",">>)
    ELSE ShapeItems(shape)

\* The dictionary text of gen_header, before the padding.
Dictionary(header) ==
    Chars(<<"{">>)
    \o Chars(<<"'", "d", "e", "s", "c", "r", "'", ":", " ", "'">>) \o gen_descr(header.dtype)
    \o Chars(<<"'", ",", " ">>)
    \o Chars(<<"'", "f", "o", "r", "t", "r", "a", "n", "_", "o", "r", "d", "e", "r", "'", ":", " ">>)
    \o (IF header.fortran_order THEN Chars(<<"T", "r", "u", "e">>)
        ELSE Chars(<<"F", "a", "l", "s", "e">>))
    \o Chars(<<",", " ">>)
    \o Chars(<<"'", "s", "h", "a", "p", "e", "'", ":", " ", "(">>) \o gen_shape(header.shape)
    \o Chars(<<")", ",", " ">>)
    \o Chars(<<"}">>)

Spaces(n) == [i \in 1..n |-> Ascii[" "]]

\* padding_length of gen_header for a text of n characters, and the same
\* without the place for the newline.
padding_length_NoNewline(version, n) ==
    LET expected_length == preamble_length(version) + n
    IN  IF expected_length % header_alignment = 0 THEN 0
        ELSE header_alignment - (expected_length % header_alignment)

padding_length(version, n) ==
    LET expected_length == preamble_length(version) + n + 1
    IN  IF expected_length % header_alignment = 0 THEN 0
        ELSE header_alignment - (expected_length % header_alignment)

\* gen_header(version, header).
gen_header(version, header) ==
    LET ret == Dictionary(header)
    IN  ret \o Spaces(padding_length(version, Len(ret))) \o <<Ascii["\n"]>>

\* The little-endian bytes of a length.
LittleEndian(n, width) == [i \in 1..width |-> (n \div (256 ^ (i - 1))) % 256]

\* write_header(os, version, header): what is put on the stream.
write_header(version, header) ==
    write_magic(version)
    \o (IF version = Version(1, 0) THEN LittleEndian(Len(header), 2)
        ELSE LittleEndian(Len(header), 4))
    \o header

\* save(os, header, data): always version 3.0.
save_version == Version(3, 0)
save(header, data) ==
    write_header(save_version, gen_header(save_version, header))
        \o SubSeq(data, 1, numbytes(header))

\* std::string_view: positions count from 0, npos is "not found".
npos == -1

\* Body of the value of e, with e computed once: a local variable of the code.
With(e, Body(_)) == CHOOSE r \in {Body(x) : x \in {e}} : TRUE

\* sv.find(pattern, from): the first position from there on at which the
\* pattern is found.
Matches(sv, pattern, from) ==
    {i \in from..(Len(sv) - Len(pattern)) :
        /\ sv[i + 1] = pattern[1]
        /\ SubSeq(sv, i + 1, i + Len(pattern)) = pattern}

find(sv, pattern, from) ==
    With(sv, LAMBDA s :
    With(Matches(s, pattern, from), LAMBDA at :
        IF at = {} THEN npos ELSE CHOOSE i \in at : \A j \in at : i <= j))

\* sv.substr(pos, count) and sv.substr(pos), for pos within sv.
substr(sv, pos, count) ==
    With(sv, LAMBDA s : SubSeq(s, pos + 1, Smaller(pos + count, Len(s))))
substr_from(sv, pos) == With(sv, LAMBDA s : SubSeq(s, pos + 1, Len(s)))

\* trim(sv): without the leading and trailing blanks and tabs.
IsWhitespace(b) == b = Ascii[" "] \/ b = Tab

RECURSIVE find_first_not_of(_, _)
find_first_not_of(sv, from) ==
    IF from >= Len(sv) THEN npos
    ELSE IF ~IsWhitespace(sv[from + 1]) THEN from
    ELSE find_first_not_of(sv, from + 1)

RECURSIVE find_last_not_of(_, _)
find_last_not_of(sv, from) ==
    IF from < 0 THEN npos
    ELSE IF ~IsWhitespace(sv[from + 1]) THEN from
    ELSE find_last_not_of(sv, from - 1)

trim(sv) ==
    With(sv, LAMBDA s :
    With(find_first_not_of(s, 0), LAMBDA begin :
        IF begin = npos THEN <<>>
        ELSE SubSeq(s, begin + 1, find_last_not_of(s, Len(s) - 1) + 1)))

\* What a step of reading gives: how it ended, the value, what is left of the
\* stream.
Got(err, val, rest) == [err |-> err, val |-> val, rest |-> rest]

\* read_magic(is): the version, after the magic string.
read_magic(is) ==
    IF Len(is) < magic_string_length + 2
        THEN Got("IOError", Version(0, 0), <<>>)
    ELSE IF SubSeq(is, 1, magic_string_length) # magic_string
        THEN Got("FormatError", Version(0, 0), is)
    ELSE Got("ok", Version(is[magic_string_length + 1],
                           is[magic_string_length + 2]),
             SubSeq(is, magic_string_length + 3, Len(is)))

\* header_length = (b[0] << 0) | (b[1] << 8) | ... on elements of type char:
\* each is promoted to int first, so that with a signed char a byte of 0x80
\* or more sets every higher bit of the result.  The 32 bits of the result,
\* as four bytes, lowest first.
Promoted(bytes, char_signed) ==
    [k \in 1..4 |->
        IF \E i \in 1..Smaller(k - 1, Len(bytes)) :
                char_signed /\ bytes[i] >= 128
            THEN 255
        ELSE IF k <= Len(bytes) THEN bytes[k] ELSE 0]

\* The number held in four bytes; every number of 2^24 or more is the same
\* to a stream that is shorter than that.
Huge == 16777216
AsNumber(b) ==
    IF b[4] # 0 THEN Huge ELSE b[1] + 256 * b[2] + 65536 * b[3]

\* The versions read_header knows.
SupportedVersions_AnyMinor ==
    {Version(major, minor) : major \in 1..3, minor \in Byte}

SupportedVersions == {Version(1, 0), Version(2, 0), Version(3, 0)}

\* The header text after the length field of the given width.  A text longer
\* than what is left of the stream keeps the zero bytes it was made of (its
\* tail is one of them here); a length field that is not there is read from
\* an uninitialised buffer.
ReadText(is, width, char_signed) ==
    IF Len(is) < width THEN Got("undefined", <<>>, <<>>)
    ELSE
        With(AsNumber(Promoted(SubSeq(is, 1, width), char_signed)),
             LAMBDA header_length :
                IF width + header_length <= Len(is)
                    THEN Got("ok", SubSeq(is, width + 1, width + header_length),
                             SubSeq(is, width + header_length + 1, Len(is)))
                ELSE Got("ok", SubSeq(is, width + 1, Len(is)) \o <<0>>, <<>>))

\* read_header(is): the header text.
read_header(is, bld) ==
    With(read_magic(is), LAMBDA magic :
        IF magic.err # "ok" THEN magic
        ELSE IF magic.val \notin SupportedVersions
            THEN Got("UnsupportedVersion", <<>>, magic.rest)
        ELSE ReadText(magic.rest,
                      IF magic.val = Version(1, 0) THEN 2 ELSE 4,
                      bld.char_signed))

\* parse_descr(sv_descr): no quote.
parse_descr(sv_descr) ==
    Dtype(sv_descr[1], sv_descr[2],
          from_chars(SubSeq(sv_descr, 3, Len(sv_descr)), 0)
              * kind_size_multiplier(sv_descr[2]))

\* parse_shape(sv_shape): no parentheses.  The loop takes the text up to
\* each comma in turn, and what is left after the last one; an item that is
\* empty once trimmed is skipped.
NextComma(commas, p, end) ==
    IF {c \in commas : c > p} = {} THEN end + 1
    ELSE Min({c \in commas : c > p})

parse_shape(sv_shape) ==
    With(sv_shape, LAMBDA s :
    With({i \in 1..Len(s) : s[i] = Ascii[","]}, LAMBDA commas :
    With([p \in {0} \cup commas |->
            trim(SubSeq(s, p + 1, NextComma(commas, p, Len(s)) - 1))],
         LAMBDA sv_this_shape :
    With({p \in DOMAIN sv_this_shape : sv_this_shape[p] # <<>>}, LAMBDA kept :
        [k \in 1..Cardinality(kept) |->
            from_chars(sv_this_shape[
                CHOOSE p \in kept : Cardinality({r \in kept : r <= p}) = k],
                0)]))))

NoHeader == Header(Dtype(0, 0, 0), FALSE, <<>>)
Parsed(err, header) == [err |-> err, val |-> header]

\* The keys parse_header looks for.
key_descr == Chars(<<"'", "d", "e", "s", "c", "r", "'", ":", " ">>)
key_fortran_order == Chars(<<"'", "f", "o", "r", "t", "r", "a", "n", "_", "o", "r", "d", "e", "r", "'", ":", " ">>)
key_shape == Chars(<<"'", "s", "h", "a", "p", "e", "'", ":", " ">>)
text_True == Chars(<<"T", "r", "u", "e">>)
prime == Chars(<<"'">>)

\* parse_header, the shape: the text between the parentheses after the key.
\* npos + 9 wraps around to 8, and a count below 0 to the end of the text.
ParseShape(sv) ==
    With(find(sv, key_shape, 0), LAMBDA loc_shape :
    With(substr_from(sv, IF loc_shape = npos THEN 8 ELSE loc_shape + 9),
         LAMBDA sv_shape_to_end :
    With(find(sv_shape_to_end, Chars(<<"(">>), 0), LAMBDA loc_shape_l :
    With(find(sv_shape_to_end, Chars(<<")">>), 0), LAMBDA loc_shape_r :
        IF loc_shape_l = npos \/ loc_shape_r = npos
            THEN Parsed("FormatError", <<>>)
        ELSE Parsed("ok",
                With(trim(IF loc_shape_r < loc_shape_l + 1
                            THEN substr_from(sv_shape_to_end, loc_shape_l + 1)
                          ELSE substr(sv_shape_to_end, loc_shape_l + 1,
                                      loc_shape_r - loc_shape_l - 1)),
                     parse_shape))))))

\* parse_header, fortran_order: whether "True" follows the key.
ParseFortranOrder(sv) ==
    With(find(sv, key_fortran_order, 0), LAMBDA loc_fortran_order :
        IF loc_fortran_order = npos THEN Parsed("FormatError", FALSE)
        ELSE Parsed("ok", substr(sv, loc_fortran_order + 17, 4) = text_True))

\* parse_header, descr: the text between the next two quotes after the key.
ParseDescr(sv) ==
    With(find(sv, key_descr, 0), LAMBDA loc_descr :
        IF loc_descr = npos THEN Parsed("FormatError", NoHeader.dtype)
        ELSE
    With(substr_from(sv, loc_descr + 9), LAMBDA sv_descr_to_end :
    With(find(sv_descr_to_end, prime, 0), LAMBDA loc_descr_prime1 :
        IF loc_descr_prime1 = npos THEN Parsed("FormatError", NoHeader.dtype)
        ELSE
    With(find(sv_descr_to_end, prime, loc_descr_prime1 + 1),
         LAMBDA loc_descr_prime2 :
        IF loc_descr_prime2 = npos THEN Parsed("FormatError", NoHeader.dtype)
        ELSE
    With(substr(sv_descr_to_end, loc_descr_prime1 + 1,
                loc_descr_prime2 - loc_descr_prime1 - 1), LAMBDA sv_descr :
        IF Len(sv_descr) < 3 THEN Parsed("FormatError", NoHeader.dtype)
        ELSE Parsed("ok", parse_descr(sv_descr)))))))

\* parse_header(sv): the newline, then descr, fortran_order and shape.
ParseTrimmed(sv) ==
    With(ParseDescr(sv), LAMBDA descr :
        IF descr.err # "ok" THEN Parsed(descr.err, NoHeader)
        ELSE
    With(ParseFortranOrder(sv), LAMBDA fortran_order :
        IF fortran_order.err # "ok" THEN Parsed(fortran_order.err, NoHeader)
        ELSE
    With(ParseShape(sv), LAMBDA shape :
        IF shape.err # "ok" THEN Parsed(shape.err, NoHeader)
        ELSE Parsed("ok", Header(descr.val, fortran_order.val, shape.val)))))

parse_header(text) ==
    With(text, LAMBDA sv :
        IF sv = <<>> THEN Parsed("undefined", NoHeader)
        ELSE IF sv[Len(sv)] # Ascii["\n"] THEN Parsed("FormatError", NoHeader)
        ELSE With(trim(SubSeq(sv, 1, Len(sv) - 1)), ParseTrimmed))

\* load_header(is): parse_header(read_header(is)).
load_header(is, bld) ==
    With(read_header(is, bld), LAMBDA read :
        IF read.err # "ok" THEN Got(read.err, NoHeader, read.rest)
        ELSE With(parse_header(read.val), LAMBDA parsed :
                Got(parsed.err, parsed.val, read.rest)))

\* load_data(is, data, numbytes) into a buffer of zeros: is.read, unchecked.
load_data(is, n) ==
    [i \in 1..n |-> IF i <= Len(is) THEN is[i] ELSE 0]

\* load(is, header, data): into a buffer of known type and size.
load_Unchecked(is, header, bld) ==
    With(load_header(is, bld), LAMBDA loaded_header :
        IF loaded_header.err # "ok"
            THEN [err |-> loaded_header.err, data |-> <<>>]
        ELSE [err |-> "ok",
              data |-> load_data(loaded_header.rest, numbytes(header))])

load(is, header, bld) ==
    With(load_header(is, bld), LAMBDA loaded_header :
        IF loaded_header.err # "ok"
            THEN [err |-> loaded_header.err, data |-> <<>>]
        ELSE IF loaded_header.val # header
            THEN [err |-> "FormatMismatch", data |-> <<>>]
        ELSE [err |-> "ok",
              data |-> load_data(loaded_header.rest, numbytes(header))])

\* load_npy_meta(npyfile).
load_npy_meta(is, bld) ==
    With(load_header(is, bld), LAMBDA header :
        [err |-> header.err,
         shape |-> header.val.shape,
         wordsize |-> header.val.dtype.itemsize,
         fortran_order |-> header.val.fortran_order])

\* The arrays saved: every element type in both orders with the shapes of
\* the callers (a scalar, a vector, a matrix), and the shapes of ones of
\* every rank up to MaxRank for two of the types.
MaxRank == 22
MaxMajor == 4
Ones(n) == [i \in 1..n |-> 1]
FlatShapes == { <<>>, <<3>>, <<2, 3>> }
DeepShapes == {Ones(n) : n \in 3..MaxRank}
DeepTypes == {"int32", "complex<double>"}
Payload(n) == [i \in 1..n |-> (37 * i + 128) % 256]

Array(type, bld, fortran_order, shape) ==
    [header |-> create_header(type, bld, fortran_order, shape),
     data |-> Payload(numbytes(create_header(type, bld, fortran_order, shape)))]

Arrays(bld) ==
    {Array(type, bld, fortran_order, shape) :
        type \in ElementTypes, fortran_order \in BOOLEAN, shape \in FlatShapes}
    \cup
    {Array(type, bld, fortran_order, shape) :
        type \in DeepTypes, fortran_order \in BOOLEAN, shape \in DeepShapes}

\* The versions a file found on disk may carry.
FileVersions ==
    {Version(major, 0) : major \in 0..MaxMajor} \cup {Version(1, 1)}

InitCodec ==
    /\ fs = Absent
    /\ open_state = "Closed"
    /\ handles = {}
    /\ last = [op |-> "none", err |-> "ok"]
    /\ NoObjects
    /\ build \in Builds
    /\ array \in Arrays(build)
    /\ stream = <<>>
    /\ loaded = <<>>

\* save(os, header, data) of the array.
CodecSave ==
    /\ stream' = save(array.header, array.data)
    /\ loaded' = <<>>
    /\ last' = [op |-> "save", err |-> "ok"]
    /\ UNCHANGED <<fs, open_state, handles, lifetime, array, build>>

\* A file of the array that another writer left, in the version it chose:
\* write_header and gen_header for that version.
CodecWrite ==
    \E version \in FileVersions :
        /\ stream' = write_header(version, gen_header(version, array.header))
                        \o array.data
        /\ loaded' = <<>>
        /\ last' = [op |-> "write", err |-> "ok"]
        /\ UNCHANGED <<fs, open_state, handles, lifetime, array, build>>

\* load(is, header, data) with the header of the array.
CodecLoad ==
    /\ stream # <<>>
    /\ \E out \in {load(stream, array.header, build)} :
        /\ loaded' = out
        /\ last' = [op |-> "load", err |-> out.err]
    /\ UNCHANGED <<fs, open_state, handles, lifetime, array, stream, build>>

\* load_npy_meta(npyfile).
CodecLoadMeta ==
    /\ stream # <<>>
    /\ \E out \in {load_npy_meta(stream, build)} :
        /\ loaded' = out
        /\ last' = [op |-> "load_npy_meta", err |-> out.err]
    /\ UNCHANGED <<fs, open_state, handles, lifetime, array, stream, build>>

NextCodec ==
    \/ CodecSave
    \/ CodecWrite
    \/ CodecLoad
    \/ CodecLoadMeta

SpecCodec == InitCodec /\ [][NextCodec]_vars

\* A saved file that lost the end of its payload: its last byte, or all of it.
CodecTruncate ==
    /\ last.op = "save"
    /\ \E lost \in {1, Len(array.data)} :
        stream' = SubSeq(stream, 1, Len(stream) - lost)
    /\ loaded' = <<>>
    /\ last' = [op |-> "truncate", err |-> "ok"]
    /\ UNCHANGED <<fs, open_state, handles, lifetime, array, build>>

NextShort ==
    \/ CodecSave
    \/ CodecTruncate
    \/ CodecLoad
    \/ CodecLoadMeta

SpecShort == InitCodec /\ [][NextShort]_vars

\* The headers a caller may expect of the file: the one of the array, and
\* those that differ from it in one place.
Expected(header) ==
    {header,
     [header EXCEPT !.dtype.byteorder =
        IF @ = char_big_endian THEN char_little_endian ELSE char_big_endian],
     [header EXCEPT !.dtype.kind = IF @ = Ascii["u"] THEN Ascii["i"] ELSE Ascii["u"]],
     [header EXCEPT !.dtype.itemsize = 2 * @],
     [header EXCEPT !.fortran_order = ~@],
     [header EXCEPT !.shape = @ \o <<1>>],
     [header EXCEPT !.shape = <<2>> \o @]}

\* load(is, header, data) with the header the caller expects.
CodecLoadAs ==
    /\ stream # <<>>
    /\ \E header \in Expected(array.header) :
        \E out \in {load(stream, header, build)} :
            /\ loaded' = out
            /\ last' = [op |-> "load", err |-> out.err, header |-> header]
    /\ UNCHANGED <<fs, open_state, handles, lifetime, array, stream, build>>

NextExpect ==
    \/ CodecSave
    \/ CodecLoadAs

SpecExpect == InitCodec /\ [][NextExpect]_vars

----------------------------------------------------------------------------
(* Header texts as they can be found in a file: a dictionary in which each
   of the three keys is there or not, the shape is a tuple or a bare number,
   and another key with a tuple of its own may follow. *)

Item(present, text, value) ==
    [present |-> present, text |-> text, value |-> value]

DescrItems ==
    {Item(FALSE, <<>>, NoHeader.dtype),
     Item(TRUE, Chars(<<"'", "d", "e", "s", "c", "r", "'", ":", " ", "'", "<", "i", "4", "'", ",", " ">>),
          Dtype(Ascii["<"], Ascii["i"], 4))}

FortranOrderItems ==
    {Item(FALSE, <<>>, FALSE),
     Item(TRUE, Chars(<<"'", "f", "o", "r", "t", "r", "a", "n", "_", "o", "r", "d", "e", "r", "'", ":", " ", "F", "a", "l", "s", "e", ",", " ">>), FALSE),
     Item(TRUE, Chars(<<"'", "f", "o", "r", "t", "r", "a", "n", "_", "o", "r", "d", "e", "r", "'", ":", " ", "T", "r", "u", "e", ",", " ">>), TRUE)}

\* tuple: whether the value of the key is a parenthesised tuple.
ShapeItem(present, tuple, text, value) ==
    [present |-> present, tuple |-> tuple, text |-> text, value |-> value]

ShapeTexts ==
    {ShapeItem(FALSE, FALSE, <<>>, <<>>),
     ShapeItem(TRUE, TRUE, Chars(<<"'", "s", "h", "a", "p", "e", "'", ":", " ", "(", ")", ",", " ">>), <<>>),
     ShapeItem(TRUE, TRUE, Chars(<<"'", "s", "h", "a", "p", "e", "'", ":", " ", "(", "3", ",", ")", ",", " ">>), <<3>>),
     ShapeItem(TRUE, TRUE, Chars(<<"'", "s", "h", "a", "p", "e", "'", ":", " ", "(", "2", ",", " ", "3", ")", ",", " ">>), <<2, 3>>),
     ShapeItem(TRUE, FALSE, Chars(<<"'", "s", "h", "a", "p", "e", "'", ":", " ", "3", ",", " ">>), <<>>)}

OtherItems ==
    {Item(FALSE, <<>>, <<>>),
     Item(TRUE, Chars(<<"'", "d", "a", "t", "e", "s", "'", ":", " ", "(", "7", ",", ")", ",", " ">>), <<7>>)}

\* The dictionaries, with the shape in front of the other keys or after them.
Dictionaries ==
    [descr : DescrItems, fortran_order : FortranOrderItems,
     shape : ShapeTexts, other : OtherItems, shape_first : BOOLEAN]

HeaderText(d) ==
    Chars(<<"{">>)
    \o (IF d.shape_first THEN d.shape.text ELSE <<>>)
    \o d.descr.text \o d.fortran_order.text
    \o (IF d.shape_first THEN <<>> ELSE d.shape.text)
    \o d.other.text
    \o Chars(<<"}", " ", " ", "\n">>)

\* A header text read from a file, not parsed yet.
InitParse ==
    /\ fs = Absent
    /\ open_state = "Closed"
    /\ handles = {}
    /\ last = [op |-> "none", err |-> "ok"]
    /\ NoObjects
    /\ build = <<>>
    /\ array \in Dictionaries
    /\ stream = HeaderText(array)
    /\ loaded = <<>>

\* parse_header(sv) on the text.
ParseHeader ==
    /\ \E out \in {parse_header(stream)} :
        /\ loaded' = out
        /\ last' = [op |-> "parse_header", err |-> out.err]
    /\ UNCHANGED <<fs, open_state, handles, lifetime, array, stream, build>>

NextParse == ParseHeader

SpecParse == InitParse /\ [][NextParse]_vars

(* Two callers on one backing store.  Nothing orders their calls: each     *)
(* call goes on by one access to the file system at a time, in the order   *)
(* of the statements of create_node, require_node, get_node,               *)
(* create_node_immediate and delete_node, all made through the File's node *)
(* of a writable File.                                                     *)

Callers == {1, 2}

\* The paths the callers create and delete.
CreatePaths == {<<"g1">>, <<"d1">>, <<"g1", "d1">>}
DeletePaths == {<<"g1">>}

\* A call in flight: the operation, the filenames of its normalized name,
\* the part the loop is at, the path of cur_node, the type asked for, the
\* statement it is at, and how it ended.
Idle ==
    [pc |-> "idle", op |-> "none", parts |-> <<>>, i |-> 0, cur |-> <<>>,
     nodetype |-> "unknown", err |-> "ok", val |-> NoNode]

\* The directory the statement at hand is about.
StepDir(r) ==
    IF r.op = "delete_node" THEN r.parts ELSE r.cur \o <<r.parts[r.i]>>

\* required_node_type: Group for the parts before the last.
StepType(r) == IF r.i = Len(r.parts) THEN r.nodetype ELSE "group"

Done(r, err, val) == [r EXCEPT !.pc = "done", !.err = err, !.val = val]

\* cur_node = the node returned; the loop goes on to the next part, and
\* after the parent path create_node goes on to create_node_immediate.
Advance(r, node) ==
    IF r.i = Len(r.parts) THEN Done(r, "ok", node)
    ELSE [r EXCEPT !.cur = path(node), !.i = @ + 1,
                   !.pc = IF r.i + 1 < Len(r.parts) THEN "probe"
                          ELSE "not_exists"]

\* A variant that fails on a directory that is there.
create_directory_Exclusive(tree, dir) ==
    IF is_directory(tree, dir) THEN [err |-> "AlreadyExists", tree |-> tree]
    ELSE IF ~CanCreateDirectory(tree, dir) THEN [err |-> "IOError", tree |-> tree]
    ELSE [err |-> "ok",
          tree |-> [d \in DOMAIN tree \cup {dir} |->
                       IF d = dir THEN Entry(NoFile, NoFile) ELSE tree[d]]]

\* std::filesystem::create_directory: an existing directory is no error
\* (the call returns false), a missing parent is one.
create_directory(tree, dir) ==
    IF is_directory(tree, dir) THEN [err |-> "ok", tree |-> tree]
    ELSE IF ~CanCreateDirectory(tree, dir) THEN [err |-> "IOError", tree |-> tree]
    ELSE [err |-> "ok",
          tree |-> [d \in DOMAIN tree \cup {dir} |->
                       IF d = dir THEN Entry(NoFile, NoFile) ELSE tree[d]]]

\* write_node_meta: std::ofstream on poppel.json replaces the file.
write_poppel_json(tree, dir, type) ==
    IF ~is_directory(tree, dir) THEN [err |-> "IOError", tree |-> tree]
    ELSE [err |-> "ok", tree |-> [tree EXCEPT ![dir].type = type]]

\* std::filesystem::remove_all, first half: the contents of the directory.
remove_contents(tree, dir) ==
    [d \in {e \in DOMAIN tree : e = dir \/ ~IsPrefix(dir, e)} |->
        IF d = dir THEN Entry(NoFile, NoFile) ELSE tree[d]]

\* std::filesystem::remove_all, second half: the directory itself, which
\* must be empty by then.
remove_directory(tree, dir) ==
    IF \/ \E e \in DOMAIN tree : e # dir /\ IsPrefix(dir, e)
       \/ tree[dir] # Entry(NoFile, NoFile)
        THEN [err |-> "IOError", tree |-> tree]
    ELSE [err |-> "ok", tree |-> [d \in DOMAIN tree \ {dir} |-> tree[d]]]

Stepped(c, op, err, r) ==
    [op |-> op, err |-> err, caller |-> c, dir |-> StepDir(r),
     type |-> StepType(r)]

InitRace ==
    /\ fs = (RootDir :> Entry("file", NoFile))
    /\ open_state = "ReadWrite"
    /\ handles = {}
    /\ last = [op |-> "none", err |-> "ok"]
    /\ heap = <<>> /\ files = <<>> /\ derived = {}
    /\ callers = [c \in Callers |-> Idle]
    /\ NoArray

RaceUnchanged == UNCHANGED <<open_state, handles, heap, files, derived, codec>>

\* create_node / delete_node is called: the checks of the File state, of
\* the node and of the name, which read nothing from disk.
RaceCall ==
    \E c \in Callers :
        /\ callers[c].pc = "idle"
        /\ \/ \E parts \in CreatePaths, nodetype \in ArgTypes :
                /\ Preliminaries(assert_file_writable(open_state), RootNode,
                                 lexically_normal(Join(parts))) = "ok"
                /\ callers' = [callers EXCEPT ![c] =
                       [Idle EXCEPT !.op = "create_node", !.parts = parts,
                                    !.i = 1, !.nodetype = nodetype,
                                    !.pc = IF Len(parts) > 1 THEN "probe"
                                           ELSE "not_exists"]]
           \/ \E parts \in DeletePaths :
                /\ Preliminaries(assert_file_writable(open_state), RootNode,
                                 lexically_normal(Join(parts))) = "ok"
                /\ callers' = [callers EXCEPT ![c] =
                       [Idle EXCEPT !.op = "delete_node", !.parts = parts,
                                    !.i = 1, !.pc = "exists"]]
        /\ UNCHANGED <<fs, last>>
        /\ RaceUnchanged

\* require_node: if(is_directory(cur_node.path() / part)).
RaceProbe ==
    \E c \in Callers :
        \E r \in {callers[c]} :
            /\ r.pc = "probe"
            /\ callers' = [callers EXCEPT ![c].pc =
                   IF is_directory(fs, StepDir(r)) THEN "get_exists"
                   ELSE "not_exists"]
            /\ last' = Stepped(c, "is_directory", "ok", r)
            /\ UNCHANGED fs
            /\ RaceUnchanged

\* get_node: assert_exists_directory(dirpath).
RaceGetExists ==
    \E c \in Callers :
        \E r \in {callers[c]} :
            /\ r.pc = "get_exists"
            /\ \E err \in {assert_exists_directory(fs, StepDir(r))} :
                /\ callers' = [callers EXCEPT ![c] =
                       IF err # "ok" THEN Done(r, err, NoNode)
                       ELSE [r EXCEPT !.pc = "get_read"]]
                /\ last' = Stepped(c, "assert_exists_directory", err, r)
            /\ UNCHANGED fs
            /\ RaceUnchanged

\* get_node: read_node_meta(dirpath) and the comparison of the type.
RaceGetRead ==
    \E c \in Callers :
        \E r \in {callers[c]} :
            /\ r.pc = "get_read"
            /\ \E err \in {IF ~is_directory(fs, StepDir(r)) THEN "IOError"
                           ELSE IF read_node_meta(fs, StepDir(r)) = NoFile
                               THEN "IOError"
                           ELSE IF ~TypeMatches(read_node_meta(fs, StepDir(r)),
                                                StepType(r))
                               THEN "TypeMismatch"
                           ELSE "ok"} :
                /\ callers' = [callers EXCEPT ![c] =
                       IF err # "ok" THEN Done(r, err, NoNode)
                       ELSE Advance(r, Node(StepType(r), StepDir(r)))]
                /\ last' = Stepped(c, "read_node_meta", err, r)
            /\ UNCHANGED fs
            /\ RaceUnchanged

\* create_node_immediate: assert_not_exists(dirpath).
RaceNotExists ==
    \E c \in Callers :
        \E r \in {callers[c]} :
            /\ r.pc = "not_exists"
            /\ \E err \in {assert_not_exists(fs, StepDir(r))} :
                /\ callers' = [callers EXCEPT ![c] =
                       IF err # "ok" THEN Done(r, err, NoNode)
                       ELSE [r EXCEPT !.pc = "create_directory"]]
                /\ last' = Stepped(c, "assert_not_exists", err, r)
            /\ UNCHANGED fs
            /\ RaceUnchanged

\* create_node_immediate: std::filesystem::create_directory(dirpath).
RaceCreateDirectory ==
    \E c \in Callers :
        \E r \in {callers[c]} :
            /\ r.pc = "create_directory"
            /\ \E out \in {create_directory(fs, StepDir(r))} :
                /\ fs' = out.tree
                /\ callers' = [callers EXCEPT ![c] =
                       IF out.err # "ok" THEN Done(r, out.err, NoNode)
                       ELSE [r EXCEPT !.pc = "write_node_meta"]]
                /\ last' = Stepped(c, "create_directory", out.err, r)
            /\ RaceUnchanged

\* create_node_immediate: write_node_meta(dirpath, meta) and the return of
\* Node { meta, node.root, normalized_name }.
RaceWriteNodeMeta ==
    \E c \in Callers :
        \E r \in {callers[c]} :
            /\ r.pc = "write_node_meta"
            /\ \E out \in {write_poppel_json(fs, StepDir(r), StepType(r))} :
                /\ fs' = out.tree
                /\ callers' = [callers EXCEPT ![c] =
                       IF out.err # "ok" THEN Done(r, out.err, NoNode)
                       ELSE Advance(r, Node(StepType(r),
                                            <<r.parts[r.i]>>))]
                /\ last' = Stepped(c, "write_node_meta", out.err, r)
            /\ RaceUnchanged

\* delete_node: assert_exists_directory(dirpath).
RaceDeleteExists ==
    \E c \in Callers :
        \E r \in {callers[c]} :
            /\ r.pc = "exists"
            /\ \E err \in {assert_exists_directory(fs, StepDir(r))} :
                /\ callers' = [callers EXCEPT ![c] =
                       IF err # "ok" THEN Done(r, err, NoNode)
                       ELSE [r EXCEPT !.pc = "remove_contents"]]
                /\ last' = Stepped(c, "assert_exists_directory", err, r)
            /\ UNCHANGED fs
            /\ RaceUnchanged

\* delete_node: remove_all(dirpath) has removed what the directory held.
RaceRemoveContents ==
    \E c \in Callers :
        \E r \in {callers[c]} :
            /\ r.pc = "remove_contents"
            /\ IF is_directory(fs, StepDir(r))
               THEN /\ fs' = remove_contents(fs, StepDir(r))
                    /\ callers' = [callers EXCEPT ![c].pc = "remove_directory"]
                    /\ last' = Stepped(c, "remove_contents", "ok", r)
               ELSE /\ fs' = fs
                    /\ callers' = [callers EXCEPT ![c] = Done(r, "ok", NoNode)]
                    /\ last' = Stepped(c, "remove_all", "ok", r)
            /\ RaceUnchanged

\* delete_node: remove_all(dirpath) removes the directory itself.
RaceRemoveDirectory ==
    \E c \in Callers :
        \E r \in {callers[c]} :
            /\ r.pc = "remove_directory"
            /\ \E out \in {IF is_directory(fs, StepDir(r))
                           THEN remove_directory(fs, StepDir(r))
                           ELSE [err |-> "ok", tree |-> fs]} :
                /\ fs' = out.tree
                /\ callers' = [callers EXCEPT ![c] = Done(r, out.err, NoNode)]
                /\ last' = Stepped(c, "remove_all", out.err, r)
            /\ RaceUnchanged

\* The caller has its result and is free for its next call.
RaceReturn ==
    \E c \in Callers :
        /\ callers[c].pc = "done"
        /\ callers' = [callers EXCEPT ![c] = Idle]
        /\ UNCHANGED <<fs, last>>
        /\ RaceUnchanged

NextRace ==
    \/ RaceCall
    \/ RaceProbe
    \/ RaceGetExists
    \/ RaceGetRead
    \/ RaceNotExists
    \/ RaceCreateDirectory
    \/ RaceWriteNodeMeta
    \/ RaceDeleteExists
    \/ RaceRemoveContents
    \/ RaceRemoveDirectory
    \/ RaceReturn

SpecRace == InitRace /\ [][NextRace]_vars

TypeOK ==
    /\ open_state \in FileOpenState
    /\ \A d \in DOMAIN fs : fs[d].type \in NodeType
    /\ \A h \in handles : h.node.type \in NodeType

----------------------------------------------------------------------------
(* Properties.  A property of a call is stated for every call that can be  *)
(* made in the current state: through the File's node or a held node, with *)
(* every path string of AllPaths and every expected type.                  *)

\* The path strings that pass the validation once normalized.
ValidPaths ==
    {p \in AllPaths : is_valid_node_normalized_relpath(lexically_normal(p))}

\* The nodes held whose path() is the directory they were obtained for.
ExactHeld == {h.node : h \in {g \in handles : g.exact}}

\* C1 -- state gating: while the File is ReadOnly or Closed, through every
\* parent node and for every valid relative path, create_node and
\* delete_node fail with StateError; require_node fails with StateError
\* whenever the same call on a writable File would create a directory, and
\* always when Closed; none of the calls changes the tree.
C1_StateGating ==
    open_state \in {"ReadOnly", "Closed"} =>
        \A node \in Parents, name \in ValidPaths, nodetype \in ArgTypes :
            LET c == create_node(fs, node, name, open_state, nodetype)
                d == delete_node(fs, node, name, open_state)
                r == require_node(fs, node, name, open_state, nodetype)
                w == require_node(fs, node, name, "ReadWrite", nodetype)
            IN  /\ c.err = "StateError" /\ c.tree = fs
                /\ d.err = "StateError" /\ d.tree = fs
                /\ r.tree = fs
                /\ (open_state = "Closed" => r.err = "StateError")
                /\ (w.tree # fs => r.err = "StateError")

\* A read-only File with nodes in it, a held node, and a require_node that
\* has just been refused.
C1_Witness ==
    /\ open_state = "ReadOnly"
    /\ last = [op |-> "require_node", err |-> "StateError"]
    /\ Cardinality(DOMAIN fs) > 1
    /\ handles # {}
    /\ \E node \in Parents, name \in ValidPaths, nodetype \in ArgTypes :
           require_node(fs, node, name, "ReadWrite", nodetype).tree # fs

\* The container nodes a call can be made through whose path() is a
\* directory on disk carrying the type the node declares.
SoundParents ==
    {node \in {RootNode} \cup ExactHeld :
        /\ is_node_group(node)
        /\ is_directory(fs, path(node))
        /\ read_node_meta(fs, path(node)) = node.type}

\* The directories dir/s1, dir/s1/s2, ... named by the filenames parts.
Chain(dir, parts) == {dir \o SubSeq(parts, 1, k) : k \in 1..Len(parts)}

\* C2 -- nested creation: in a writable File, require_node(parent,
\* s1/.../sn, T) on a tree in which none of the segments exists creates
\* exactly the directories parent/s1, ..., parent/s1/.../sn, the first n-1
\* with a Group descriptor and the last with a descriptor of type T, and
\* leaves every other directory as it was.
C2_NestedCreation ==
    open_state = "ReadWrite" =>
        \A node \in SoundParents, parts \in NamePaths, nodetype \in ArgTypes :
            ~is_directory(fs, path(node) \o <<parts[1]>>) =>
                LET r == require_node(fs, node, Join(parts), open_state, nodetype)
                IN  /\ r.err = "ok"
                    /\ DOMAIN r.tree = DOMAIN fs \cup Chain(path(node), parts)
                    /\ \A d \in DOMAIN fs : r.tree[d] = fs[d]
                    /\ \A k \in 1..Len(parts) :
                           r.tree[path(node) \o SubSeq(parts, 1, k)].type =
                               IF k = Len(parts) THEN nodetype ELSE "group"

\* C3 -- canonical handles: the node returned by create_node, require_node
\* or get_node has path() = parent.path()/normalized(relpath) and the type
\* asked for, and equals the node get_node returns for the same target on
\* the tree the call left.
C3_CanonicalHandles ==
    open_state = "ReadWrite" =>
        \A node \in SoundParents, name \in ValidPaths, nodetype \in ArgTypes :
            \A out \in {create_node(fs, node, name, open_state, nodetype),
                        require_node(fs, node, name, open_state, nodetype),
                        get_node(fs, node, name, open_state, nodetype)} :
                out.err = "ok" =>
                    /\ path(out.val) = Below(path(node), lexically_normal(name))
                    /\ out.val.type = nodetype
                    /\ out.val = get_node(out.tree, node, name, open_state,
                                          nodetype).val

\* The directories strictly between dir and the one the filenames parts
\* lead to all carry a Group descriptor.
GroupsBetween(tree, dir, parts) ==
    \A k \in 1..(Len(parts) - 1) :
        read_node_meta(tree, dir \o SubSeq(parts, 1, k)) = "group"

\* C4 as stated -- conflict detection: when a name exists under a parent as
\* a Group, create_node(parent, name, Dataset) in a writable File fails
\* with TypeMismatch and changes nothing, and a later
\* get_node(parent, name, Group) succeeds.
C4_ConflictTypeMismatch ==
    open_state = "ReadWrite" =>
        \A node \in SoundParents, name \in ValidPaths :
            LET target == Below(path(node), lexically_normal(name))
                c == create_node(fs, node, name, open_state, "dataset")
            IN  (is_directory(fs, target) /\ read_node_meta(fs, target) = "group")
                => /\ c.err = "TypeMismatch"
                   /\ c.tree = fs
                   /\ get_node(c.tree, node, name, open_state, "group").err = "ok"

\* C4 -- conflict detection: when a name exists under a File or Group
\* parent as a Group, create_node(parent, name, Dataset) in a writable File
\* fails with AlreadyExists (with TypeMismatch when a directory between the
\* parent and the name is not a Group) and changes nothing, and a later
\* get_node(parent, name, Group) succeeds.
C4_ConflictAlreadyExists ==
    open_state = "ReadWrite" =>
        \A node \in {n \in Parents : is_node_group(n)}, name \in ValidPaths :
            LET normalized_name == lexically_normal(name)
                target == Below(path(node), normalized_name)
                c == create_node(fs, node, name, open_state, "dataset")
            IN  (is_directory(fs, target) /\ read_node_meta(fs, target) = "group")
                => /\ c.err = IF GroupsBetween(fs, path(node),
                                               Parts(normalized_name))
                              THEN "AlreadyExists" ELSE "TypeMismatch"
                   /\ c.tree = fs
                   /\ get_node(c.tree, node, name, open_state, "group").err = "ok"

\* A create_node has just been refused because the path is occupied, in a
\* writable File holding a Group that has a node below it.
C4_Witness ==
    /\ open_state = "ReadWrite"
    /\ last = [op |-> "create_node", err |-> "AlreadyExists"]
    /\ \E d \in DOMAIN fs, e \in DOMAIN fs :
           /\ d # RootDir /\ e # d /\ IsPrefix(d, e)
           /\ read_node_meta(fs, d) = "group"
           /\ create_node(fs, RootNode, Join(d), open_state, "dataset").err
                  = "AlreadyExists"

\* C5 -- deletion: in a writable File, delete_node(parent, p) with an
\* existing target succeeds, removes the directory parent.path()/p with
\* everything below it and leaves every other directory and descriptor as
\* it was; afterwards has_node, asked through the File's node or any
\* File- or Group-typed node held since before the deletion, returns false
\* for every path into the removed subtree and every expected type.
C5_Deletion ==
    open_state = "ReadWrite" =>
        \A node \in {n \in Parents : is_node_group(n)}, name \in ValidPaths :
            LET target == Below(path(node), lexically_normal(name))
            IN  is_directory(fs, target) =>
                    \A d \in {delete_node(fs, node, name, open_state)} :
                        /\ d.err = "ok"
                        /\ DOMAIN d.tree = {e \in DOMAIN fs : ~IsPrefix(target, e)}
                        /\ \A e \in DOMAIN d.tree : d.tree[e] = fs[e]
                        /\ \A asked \in {n \in Parents : is_node_group(n)},
                              q \in ValidPaths, nodetype \in ArgTypes :
                               IsPrefix(target,
                                        Below(path(asked), lexically_normal(q)))
                               => \A h \in {has_node(d.tree, asked, q, open_state,
                                                     nodetype)} :
                                      h.err = "ok" /\ h.val = FALSE

\* A delete_node has just succeeded, a node held since before it has lost
\* its directory, and other nodes remain.
C5_Witness ==
    /\ open_state = "ReadWrite"
    /\ last = [op |-> "delete_node", err |-> "ok"]
    /\ \E h \in handles :
           /\ h.exact
           /\ is_node_group(h.node)
           /\ ~is_directory(fs, path(h.node))
    /\ Cardinality(DOMAIN fs) > 1

\* C6 -- resolve outcome: for an open File, a File- or Group-typed parent
\* and a valid relative path, get_node(parent, p, T) fails with NotFound
\* iff the directory parent.path()/p is missing, fails with TypeMismatch
\* iff it exists with a descriptor type other than T, and otherwise returns
\* a node of the on-disk descriptor type T; it never changes the tree.
C6_ResolveOutcome ==
    open_state \in {"ReadOnly", "ReadWrite"} =>
        \A node \in {n \in Parents : is_node_group(n)},
           name \in ValidPaths, nodetype \in ArgTypes :
            LET target == Below(path(node), lexically_normal(name))
            IN  \A g \in {get_node(fs, node, name, open_state, nodetype)} :
                    /\ g.tree = fs
                    /\ g.err \in {"ok", "NotFound", "TypeMismatch"}
                    /\ g.err = "NotFound" <=> ~is_directory(fs, target)
                    /\ g.err = "TypeMismatch" <=>
                           /\ is_directory(fs, target)
                           /\ read_node_meta(fs, target) # nodetype
                    /\ g.err = "ok" =>
                           /\ g.val.type = nodetype
                           /\ g.val.type = read_node_meta(fs, g.dir)
                           /\ g.dir = target

\* A get_node has just failed on a descriptor of another type: the File is
\* open, every node it can have been made through is File- or Group-typed.
C6_Witness ==
    /\ open_state = "ReadOnly"
    /\ last = [op |-> "get_node", err |-> "TypeMismatch"]
    /\ \A node \in Parents : is_node_group(node)
    /\ \E name \in ValidPaths :
           /\ get_node(fs, RootNode, name, open_state, "group").err = "TypeMismatch"
           /\ get_node(fs, RootNode, name, open_state, "dataset").err = "ok"

\* C7 -- exists is a pure query: has_node never changes the tree, whatever
\* its arguments; for an open File, a File- or Group-typed parent and a
\* valid relative path it does not fail, returns false when the target or
\* any directory on the way to it is missing or the descriptor type is not
\* T, and true only when the target exists with descriptor type T.
C7_ExistsPure ==
    \A node \in Parents, name \in AllPaths, nodetype \in ArgTypes :
        \A h \in {has_node(fs, node, name, open_state, nodetype)} :
            /\ h.tree = fs
            /\ ( /\ open_state # "Closed"
                 /\ is_node_group(node)
                 /\ name \in ValidPaths )
               => LET parts == Parts(lexically_normal(name))
                      target == path(node) \o parts
                  IN  /\ h.err = "ok"
                      /\ h.val = TRUE <=>
                             /\ is_directory(fs, target)
                             /\ read_node_meta(fs, target) = nodetype
                      /\ (\E d \in Chain(path(node), parts) :
                              ~is_directory(fs, d)) => h.val = FALSE

\* A has_node has just answered on a read-only File that holds a Group
\* and a Dataset, so that the answer is false for a type that does not
\* match and for a name that is missing.
C7_Witness ==
    /\ open_state = "ReadOnly"
    /\ last = [op |-> "has_node", err |-> "ok"]
    /\ \E name \in ValidPaths :
           /\ has_node(fs, RootNode, name, open_state, "group").val = TRUE
           /\ has_node(fs, RootNode, name, open_state, "dataset").val = FALSE
    /\ \E name \in ValidPaths, nodetype \in ArgTypes :
           /\ ~is_directory(fs, Below(RootDir, lexically_normal(name)))
           /\ has_node(fs, RootNode, name, open_state, nodetype).val = FALSE

\* C8 -- no stale descriptors: when the directory behind a held node
\* carries a descriptor of another type than the node declares (it was
\* deleted and created again), has_node, get_node, create_node,
\* require_node and delete_node through that node fail with TypeMismatch.
C8_NoStaleDescriptors ==
    open_state = "ReadWrite" =>
        \A node \in ExactHeld :
            ( /\ is_directory(fs, path(node))
              /\ read_node_meta(fs, path(node)) # node.type )
            => \A name \in ValidPaths, nodetype \in ArgTypes :
                   /\ has_node(fs, node, name, open_state, nodetype).err
                          = "TypeMismatch"
                   /\ get_node(fs, node, name, open_state, nodetype).err
                          = "TypeMismatch"
                   /\ create_node(fs, node, name, open_state, nodetype).err
                          = "TypeMismatch"
                   /\ require_node(fs, node, name, open_state, nodetype).err
                          = "TypeMismatch"
                   /\ delete_node(fs, node, name, open_state).err
                          = "TypeMismatch"

\* C9 -- tree type invariant: every directory other than the File root
\* has a parent directory whose descriptor type is File or Group.
C9_TreeTypeInvariant ==
    \A d \in DOMAIN fs \ {RootDir} :
        LET parent == SubSeq(d, 1, Len(d) - 1)
        IN  /\ is_directory(fs, parent)
            /\ read_node_meta(fs, parent) \in {"file", "group"}

\* C10 -- Dataset I/O gating: through every held node, on a Closed File
\* load_to and save_from fail with StateError and load_npy_header fails;
\* on a ReadOnly File save_from fails with StateError; through a node
\* whose type is not Dataset, on an open File, load_to and save_from fail
\* with TypeMismatch and load_npy_header fails; a call that fails leaves
\* the payload files as they were.
C10_DatasetIOGating ==
    \A node \in Held, val \in Values :
        LET to_header == Dataset_load_npy_header(fs, node, open_state)
            to_load == Dataset_load_to(fs, node, open_state)
            to_save == Dataset_save_from(fs, node, open_state, val)
        IN  /\ open_state = "Closed" =>
                /\ to_load.err = "StateError"
                /\ to_save.err = "StateError" /\ to_save.tree = fs
                /\ to_header.err # "ok"
            /\ open_state = "ReadOnly" =>
                /\ to_save.err = "StateError" /\ to_save.tree = fs
            /\ (open_state # "Closed" /\ ~is_node_dataset(node)) =>
                /\ to_load.err = "TypeMismatch"
                /\ (open_state = "ReadWrite" => to_save.err = "TypeMismatch")
                /\ to_save.tree = fs
                /\ to_header.err # "ok"

\* C11 -- attribute write gating: while the File is ReadOnly or Closed,
\* save_attr through the File's node or any held node fails with
\* StateError and leaves every attribute document as it was.
C11_AttributeWriteGating ==
    open_state \in {"ReadOnly", "Closed"} =>
        \A node \in Parents, val \in Values :
            \A s \in {Group_save_attr(fs, node, open_state, val)} :
                s.err = "StateError" /\ s.tree = fs

\* The outcomes of access to the attribute document of every node that can
\* be used in the current state and whose directory exists.
C12_Access ==
    \A node \in {n \in Parents : is_directory(fs, path(n))}, val \in Values :
        LET dir == path(node)
            rw == get_attribute(fs, node, "ReadWrite")
            ro == get_attribute(fs, node, "ReadOnly")
            closed == get_attribute(fs, node, "Closed")
            saved == Group_save_attr(fs, node, "ReadWrite", val)
        IN  /\ rw.err = "ok"
            /\ rw.tree = IF fs[dir].attr = NoFile
                         THEN [fs EXCEPT ![dir].attr = EmptyDoc]
                         ELSE fs
            /\ ro.tree = fs
            /\ ro.err # "ok" <=> fs[dir].attr = NoFile
            /\ closed.err # "ok" /\ closed.tree = fs
            /\ get_attribute(rw.tree, node, "ReadOnly").err = "ok"
            /\ Group_load_attr(rw.tree, node, "ReadOnly").err = "ok"
            /\ saved.err = "ok"
            /\ Group_load_attr(saved.tree, node, "ReadOnly").val = val
            /\ Group_load_attr(saved.tree, node, "ReadOnly").tree = saved.tree

\* A step changes a document that exists only by save_attr, or by the
\* File being opened anew over an erased root.
C12_Step ==
    \A d \in DOMAIN fs \cap DOMAIN fs' :
        (fs[d].attr # NoFile /\ fs'[d].attr # fs[d].attr) =>
            \/ last'.op = "save_attr"
            \/ last'.op = "open" /\ d = RootDir /\ fs'[d].attr = NoFile

NewRoot == (RootDir :> Entry("file", NoFile))

\* What the open of the step, called with last'.mode, makes of the path.
C13_Step ==
    last'.op = "open" =>
        LET m == last'.mode
            opened == last'.err = "ok"
        IN  /\ IF is_directory(fs, RootDir) THEN
                   IF Excl \in m
                       THEN last'.err = "AlreadyExists" /\ fs' = fs
                   ELSE IF Truncate \in m
                       THEN opened /\ fs' = NewRoot
                   ELSE /\ fs' = fs
                        /\ read_node_meta(fs, RootDir) = "file" => opened
               ELSE
                   IF Create \in m
                       THEN opened /\ fs' = NewRoot
                   ELSE last'.err = "NotFound" /\ fs' = fs
            /\ opened /\ Write \in m => open_state' = "ReadWrite"
            /\ opened /\ Write \notin m => open_state' = "ReadOnly"

C14_OpenValidatesDescriptor ==
    (is_directory(fs, RootDir) /\ read_node_meta(fs, RootDir) # "file") =>
        \A mode \in AnyMode :
            \A out \in {File_open(fs, mode)} :
                out.err # "ok" /\ out.tree = fs

\* The open of the step, when called with Write and without Read, leaves
\* the path as it was.
C15_Step ==
    (last'.op = "open" /\ Write \in last'.mode /\ Read \notin last'.mode)
        => fs' = fs

\* The last open, when called with Write and without Read, was rejected.
C15_Rejected ==
    (last.op = "open" /\ Write \in last.mode /\ Read \notin last.mode)
        => last.err # "ok"

\* C15 -- Write requires Read: an open whose mode sets Write but not Read
\* is rejected with an error (so that no File is opened writable by it)
\* and does not touch the filesystem.
C15_WriteRequiresRead == []C15_Rejected /\ [][C15_Step]_vars

\* C16: while a File exists and owns its FileStates, a call through a handle
\* derived from it reads the open state that the File has now.
C16_OpenStateLifetime ==
    \A h \in derived :
        (files[h.of].alive /\ files[h.of].pstates # Null) =>
            Observed(heap, h.pstates) = {heap[files[h.of].pstates]}

\* C17: close() and the destructor end without raising on any File object,
\* and leave the object's state Closed.
C17_TeardownCloses ==
    (last.op \in {"close", "~File"}) =>
        /\ last.err = "ok"
        /\ last.op = "close" => heap[files[last.file].pstates] = "Closed"

\* C18: for every element type, shape and order, loading what save wrote,
\* with the same type, shape and order, gives back the bytes saved, and
\* load_npy_meta gives the shape, the element width and the order.
C18_CodecRoundTrip ==
    (stream = save(array.header, array.data)) =>
        /\ last.op = "load" =>
            loaded = [err |-> "ok", data |-> array.data]
        /\ last.op = "load_npy_meta" =>
            loaded = [err |-> "ok",
                      shape |-> array.header.shape,
                      wordsize |-> array.header.dtype.itemsize,
                      fortran_order |-> array.header.fortran_order]

\* The spaces that directly precede the last character of a text.
RECURSIVE SpacesBefore(_, _)
SpacesBefore(text, i) ==
    IF i < 1 \/ text[i] # Ascii[" "] THEN 0 ELSE 1 + SpacesBefore(text, i - 1)

\* C19: the header text written for the array, in each version that has a
\* preamble, ends with a newline preceded by fewer than 64 spaces and then
\* the closing brace, and with the preamble its length is a multiple of 64;
\* in a stream of such a version the data start at a multiple of 64.
C19_HeaderAlignment ==
    /\ \A version \in {Version(1, 0), Version(2, 0), Version(3, 0)} :
        \A text \in {gen_header(version, array.header)} :
            /\ text[Len(text)] = Ascii["\n"]
            /\ SpacesBefore(text, Len(text) - 1) < 64
            /\ text[Len(text) - 1 - SpacesBefore(text, Len(text) - 1)]
                    = Ascii["}"]
            /\ (preamble_length(version) + Len(text)) % 64 = 0
    /\ (stream # <<>> /\ stream[8] = 0 /\ stream[7] \in 1..3) =>
            (Len(stream) - Len(array.data)) % 64 = 0

\* A saved header that needs no padding: the brace, then the newline.
C19_Witness ==
    /\ last.op = "save"
    /\ stream = save(array.header, array.data)
    /\ stream[Len(stream) - Len(array.data) - 1] = Ascii["}"]

\* C20: read_header takes a stream with the magic string when its version
\* is 1.0, 2.0 or 3.0, and otherwise ends with UnsupportedVersion having read
\* the magic string and the version only; what save writes carries the
\* version 3.0 and a length field of four bytes.
C20_FormatVersions ==
    /\ stream # <<>> =>
        \A read \in {read_header(stream, build)} :
            IF stream[8] = 0 /\ stream[7] \in 1..3
                THEN read.err = "ok"
            ELSE /\ read.err = "UnsupportedVersion"
                 /\ read.val = <<>>
                 /\ read.rest = SubSeq(stream, 9, Len(stream))
    /\ (last.op \in {"load", "load_npy_meta"} =>
            (last.err = "UnsupportedVersion"
                <=> ~(stream[8] = 0 /\ stream[7] \in 1..3)))
    /\ \A written \in {save(array.header, array.data)} :
        /\ last.op = "save" => stream = written
        /\ SubSeq(written, 1, 8) = magic_string \o <<3, 0>>
        /\ written[12] = 0
        /\ Len(written) = 12 + written[9] + 256 * written[10]
                            + 65536 * written[11] + Len(array.data)

\* A load of a stream of major version 4 that ended with UnsupportedVersion.
C20_Witness ==
    /\ last.op = "load"
    /\ last.err = "UnsupportedVersion"
    /\ stream # <<>>
    /\ stream[7] = 4

\* C21: in a stream of version 1.0, 2.0 or 3.0 the length field is 2 bytes
\* (version 1.0) or 4 bytes little-endian, and read_header gives back exactly
\* the header text that write_header wrote, leaving the stream at the payload.
C21_HeaderLengthField ==
    (stream # <<>> /\ stream[8] = 0 /\ stream[7] \in 1..3) =>
        \A text \in {gen_header(Version(stream[7], 0), array.header)} :
            /\ Len(stream) = (IF stream[7] = 1 THEN 10 ELSE 12)
                                + Len(text) + Len(array.data)
            /\ SubSeq(stream, 9, IF stream[7] = 1 THEN 10 ELSE 12)
                    = LittleEndian(Len(text), IF stream[7] = 1 THEN 2 ELSE 4)
            /\ read_header(stream, build) = Got("ok", text, array.data)

\* C22: parse_header ends with FormatError when descr, fortran_order or shape
\* is not in the text or the shape is no parenthesised tuple, and a Header it
\* returns has the dtype and the shape that these keys hold.
C22_HeaderParseErrors ==
    (last.op = "parse_header") =>
        /\ (~array.descr.present \/ ~array.fortran_order.present
                \/ ~array.shape.present \/ ~array.shape.tuple)
            => loaded.err = "FormatError"
        /\ loaded.err = "ok" =>
            /\ loaded.val.dtype = array.descr.value
            /\ loaded.val.shape = array.shape.value

\* C23: a load from a stream that holds fewer payload bytes after the header
\* than the array has ends with IOError.
C23_TruncatedPayload ==
    (/\ last.op = "load"
     /\ Len(stream) < Len(save(array.header, array.data))) =>
        loaded.err = "IOError"

\* C24: when the header of the stream parses, load with an expected header
\* gives the first numbytes bytes of the payload if the two headers are
\* equal in byte order, kind, item size, order and shape, and otherwise ends
\* with FormatMismatch and nothing put into the buffer.
C24_LoadExpectedHeader ==
    stream # <<>> =>
        \A found \in {load_header(stream, build)} :
            found.err = "ok" =>
                \A header \in Expected(array.header) :
                    \A out \in {load(stream, header, build)} :
                        IF /\ found.val.dtype.byteorder = header.dtype.byteorder
                           /\ found.val.dtype.kind = header.dtype.kind
                           /\ found.val.dtype.itemsize = header.dtype.itemsize
                           /\ found.val.fortran_order = header.fortran_order
                           /\ found.val.shape = header.shape
                        THEN /\ out.err = "ok"
                             /\ Len(out.data)
                                    = Product(header.shape) * header.dtype.itemsize
                             /\ out.data = SubSeq(found.rest, 1, Len(out.data))
                        ELSE /\ out.err = "FormatMismatch"
                             /\ out.data = <<>>

\* A load that expected one more dimension of size 1 and was refused.
C24_Witness ==
    /\ last.op = "load"
    /\ last.err = "FormatMismatch"
    /\ last.header.shape = array.header.shape \o <<1>>
    /\ loaded.data = <<>>

\* The five calls with one name through one node, on the current tree.
Calls(node, name, nodetype) ==
    [has_node |-> has_node(fs, node, name, open_state, nodetype),
     get_node |-> get_node(fs, node, name, open_state, nodetype),
     create_node |-> create_node(fs, node, name, open_state, nodetype),
     require_node |-> require_node(fs, node, name, open_state, nodetype),
     delete_node |-> delete_node(fs, node, name, open_state)]

\* A path is acceptable: not absolute, not empty, its first segment neither
\* dot nor dot-dot, its last segment not empty.
Acceptable(p) ==
    /\ p # <<>>
    /\ ~IsSep(p[1])
    /\ p[1] \notin {".", ".."}
    /\ ~IsSep(p[Len(p)])

\* The validation accepts exactly the acceptable paths, among the path
\* strings and their normal forms; the listed spellings fall as stated.
ValidationTable ==
    /\ \A p \in AllPaths \cup {lexically_normal(q) : q \in AllPaths} :
           is_valid_node_normalized_relpath(p) <=> Acceptable(p)
    /\ \A p \in {<<>>, <<".">>, <<"..">>, <<"/">>, <<"g1", "/">>,
                 <<"..", "/", "g1">>} :
           ~is_valid_node_normalized_relpath(p)
    /\ \A p \in {<<"g1">>, <<"g1", "/", "g1">>} :
           is_valid_node_normalized_relpath(p)

\* C25 as stated -- path validation: a normalized relative path is accepted
\* iff it is not absolute, not empty, does not start with dot or dot-dot and
\* has a non-empty last segment; has_node, get_node, create_node,
\* require_node and delete_node given a rejected path fail with PathError
\* and leave the tree as it was.
C25_PathErrorAlways ==
    /\ ValidationTable
    /\ \A node \in Parents, name \in AllPaths \ ValidPaths, nodetype \in ArgTypes :
           \A calls \in {Calls(node, name, nodetype)} :
               \A op \in DOMAIN calls :
                   calls[op].err = "PathError" /\ calls[op].tree = fs

\* C25 -- path validation: the same acceptance rule; the five calls given a
\* rejected path leave the tree as it was and fail, with PathError when the
\* File is in the state the call needs (open; writable for create_node and
\* delete_node) and the node the call is made through is File- or
\* Group-typed, with StateError when the File is not in that state, and
\* otherwise with TypeMismatch.
C25_PathValidation ==
    /\ ValidationTable
    /\ \A node \in Parents, name \in AllPaths \ ValidPaths, nodetype \in ArgTypes :
           \A calls \in {Calls(node, name, nodetype)} :
               \A op \in DOMAIN calls :
                   /\ calls[op].tree = fs
                   /\ calls[op].err =
                          IF \/ open_state = "Closed"
                             \/ /\ open_state = "ReadOnly"
                                /\ op \in {"create_node", "delete_node"}
                              THEN "StateError"
                          ELSE IF node.type \notin {"file", "group"}
                              THEN "TypeMismatch"
                          ELSE "PathError"

\* A create_node has just been refused for its path, in a writable File
\* with a node in it and a node held.
C25_Witness ==
    /\ open_state = "ReadWrite"
    /\ last = [op |-> "create_node", err |-> "PathError"]
    /\ Cardinality(DOMAIN fs) > 1
    /\ \E h \in handles : is_node_group(h.node)

\* The names of two segments and more.
NestedPaths == {parts \in NamePaths : Len(parts) >= 2}

\* The tree after the first k segments of parts were required as Groups
\* through node.
Upto(node, parts, k) ==
    IF k = 0 THEN Outcome("ok", node, path(node), fs)
    ELSE require_node(fs, node, Join(SubSeq(parts, 1, k)), open_state, "group")

\* The first directory on the way from dir along parts that exists with a
\* descriptor other than the one the call needs there, if any.
Blocked(dir, parts, nodetype, creating) ==
    {k \in 1..Len(parts) :
        /\ is_directory(fs, dir \o SubSeq(parts, 1, k))
        /\ \/ creating /\ k = Len(parts)
           \/ read_node_meta(fs, dir \o SubSeq(parts, 1, k))
                  # (IF k = Len(parts) THEN nodetype ELSE "group")}

\* C26 -- failure of a nested create/require: in a writable File, when
\* create_node or require_node through a File or Group node fails on a path
\* of several segments, it ends with an error kind (TypeMismatch for a
\* directory on the way of another type than needed, AlreadyExists for a
\* create whose target exists), every directory that was there keeps its
\* descriptor, every directory the call made holds a Group descriptor, and
\* the tree left is the one left by requiring, as Groups, the segments that
\* come before the one the call failed at.
C26_NestedFailure ==
    open_state = "ReadWrite" =>
        \A node \in SoundParents, parts \in NestedPaths, nodetype \in ArgTypes :
            \A creating \in BOOLEAN :
                \A out \in {IF creating
                            THEN create_node(fs, node, Join(parts), open_state,
                                             nodetype)
                            ELSE require_node(fs, node, Join(parts), open_state,
                                              nodetype)} :
                    out.err # "ok" =>
                        /\ out.err \in {"TypeMismatch", "AlreadyExists", "IOError"}
                        /\ \A blocked \in {Blocked(path(node), parts, nodetype,
                                                   creating)} :
                               blocked # {} =>
                                   out.err =
                                       IF creating /\ Min(blocked) = Len(parts)
                                       THEN "AlreadyExists" ELSE "TypeMismatch"
                        /\ \A d \in DOMAIN fs :
                               d \in DOMAIN out.tree /\ out.tree[d] = fs[d]
                        /\ \A d \in DOMAIN out.tree \ DOMAIN fs :
                               out.tree[d].type = "group"
                        /\ \E k \in 0..(Len(parts) - 1) :
                               /\ Upto(node, parts, k).err = "ok"
                               /\ Upto(node, parts, k).tree = out.tree
                               /\ k + 1 < Len(parts) =>
                                      Upto(node, parts, k + 1).err # "ok"

\* A require_node through the File's node has just failed below directories
\* it had made, and a nested require_node would again fail after making
\* directories.
C26_Witness ==
    /\ open_state = "ReadWrite"
    /\ last.op = "require_node"
    /\ last.err \in {"IOError", "TypeMismatch"}
    /\ handles = {}
    /\ Cardinality(DOMAIN fs) >= 3
    /\ \E parts \in NestedPaths, nodetype \in ArgTypes :
           \E out \in {require_node(fs, RootNode, Join(parts), open_state,
                                    nodetype)} :
               out.err # "ok" /\ out.tree # fs

\* C27 -- uncoordinated concurrency: nothing keeps two callers on one store
\* apart.  A create_directory on a directory that is already there is no
\* error, so a create that passed its check before the other made the
\* directory goes on; each write_node_meta leaves the writer's type as the
\* descriptor, whatever was there; a remove_all that fails leaves the
\* directory in place, without its descriptor or with a directory below it.
C27_UncoordinatedCallers ==
    /\ last.op = "create_directory" =>
           /\ last.err \in {"ok", "IOError"}
           /\ last.err = "ok" => is_directory(fs, last.dir)
    /\ (last.op = "write_node_meta" /\ last.err = "ok") =>
           /\ is_directory(fs, last.dir)
           /\ read_node_meta(fs, last.dir) = last.type
    /\ (last.op = "remove_all" /\ last.err # "ok") =>
           /\ is_directory(fs, last.dir)
           /\ \/ read_node_meta(fs, last.dir) # NoFile
              \/ \E e \in DOMAIN fs : e # last.dir /\ IsPrefix(last.dir, e)

\* Two create_node calls for the name d1, one for a Group and one for a
\* Dataset, have both returned a node; the descriptor is the one written
\* last and the other caller's node declares another type.  Before that a
\* create_node of g1/d1 went on while g1 was being deleted: g1 is left
\* without a descriptor, with the node d1 below it.
C27_Witness ==
    /\ \A c \in Callers :
           /\ callers[c].pc = "done"
           /\ callers[c].op = "create_node"
           /\ callers[c].parts = <<"d1">>
           /\ callers[c].err = "ok"
    /\ callers[1].nodetype # callers[2].nodetype
    /\ last.op = "write_node_meta"
    /\ read_node_meta(fs, <<"d1">>) = callers[last.caller].val.type
    /\ \E c \in Callers : callers[c].val.type # read_node_meta(fs, <<"d1">>)
    /\ is_directory(fs, <<"g1">>)
    /\ read_node_meta(fs, <<"g1">>) = NoFile
    /\ is_directory(fs, <<"g1", "d1">>)
    /\ read_node_meta(fs, <<"g1", "d1">>) # NoFile

\* The directories whose entry is not the same in the two trees.
Touched(tree, after) ==
    {d \in DOMAIN tree \cup DOMAIN after :
        \/ d \notin DOMAIN tree
        \/ d \notin DOMAIN after
        \/ tree[d] # after[d]}

StrictlyBelow(dir, d) == IsPrefix(dir, d) /\ d # dir

\* C28 -- path containment: in a writable File, for every File or Group
\* node whose path is its directory and every accepted relative path, each
\* of has_node, get_node, create_node, require_node and delete_node changes
\* only directories strictly below the node's directory and returns a node
\* whose directory is strictly below it; two spellings with the same normal
\* form have the same outcome.
C28_PathContainment ==
    open_state = "ReadWrite" =>
        \A node \in SoundParents, name \in ValidPaths, nodetype \in ArgTypes :
            \A calls \in {Calls(node, name, nodetype)} :
                /\ \A op \in DOMAIN calls :
                       /\ \A d \in Touched(fs, calls[op].tree) :
                              StrictlyBelow(path(node), d)
                       /\ (calls[op].err = "ok" /\ calls[op].dir # NoDir) =>
                              /\ StrictlyBelow(path(node), calls[op].dir)
                              /\ StrictlyBelow(path(node), path(calls[op].val))
                /\ \A other \in ValidPaths :
                       lexically_normal(other) = lexically_normal(name) =>
                           Calls(node, other, nodetype) = calls

\* C29 -- dataset creation through the tree: in a writable File, for every
\* File or Group node whose path is its directory, every accepted relative
\* path and every value, a create_dataset that succeeds leaves a Dataset
\* directory at the named place whose payload is the value, which
\* get_dataset followed by load_to gives back; whether it succeeds or not
\* it leaves no new Dataset directory without payload and no payload of an
\* earlier directory changed.
C29_CreateDataset ==
    open_state = "ReadWrite" =>
        \A node \in SoundParents, name \in ValidPaths, val \in Values :
            \A out \in {Group_create_dataset(fs, node, name, open_state, val)} :
                /\ out.err = "ok" =>
                       \A target \in {Below(path(node), lexically_normal(name))} :
                           /\ is_directory(out.tree, target)
                           /\ read_node_meta(out.tree, target) = "dataset"
                           /\ out.tree[target].data = val
                           /\ \A got \in {get_node(out.tree, node, name,
                                                   open_state, "dataset")} :
                                  /\ got.err = "ok"
                                  /\ Dataset_load_to(out.tree, got.val,
                                                     open_state).val = val
                /\ \A d \in DOMAIN out.tree \ DOMAIN fs :
                       read_node_meta(out.tree, d) = "dataset" =>
                           out.tree[d].data # NoFile
                /\ \A d \in DOMAIN fs :
                       d \in DOMAIN out.tree /\ out.tree[d].data = fs[d].data

\* C30 -- a failed open leaves the File unusable: after an open on a File
\* object has failed, the FileStates the File owns is Closed, and so is
\* whatever the File's own group and the handles derived from the File
\* read as the open state.
C30_FailedOpenCloses ==
    (last.op = "open" /\ last.err \notin {"ok", "undefined"}) =>
        /\ heap[files[last.file].pstates] = "Closed"
        /\ files[last.file].group # Null =>
               Observed(heap, files[last.file].group) = {"Closed"}
        /\ \A h \in derived :
               h.of = last.file => Observed(heap, h.pstates) = {"Closed"}

====
